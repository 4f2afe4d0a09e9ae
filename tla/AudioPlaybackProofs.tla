------------------------- MODULE AudioPlaybackProofs -------------------------
(***************************************************************************)
(* The sample queue is a first-in first-out channel for every depth and    *)
(* every kind of word, by itself and inside the audio peripheral.          *)
(***************************************************************************)
EXTENDS AudioPlayback, SequenceTheorems, TLAPS

(***************************************************************************)
(* The ring of the RAM                                                     *)
(***************************************************************************)

\* The RAM has a word at least (sync_fifo.sv takes a power of two).
LEMMA DepthPositive == DEPTH \in Nat /\ DEPTH >= 1
BY DepthAssumption

\* The place i after rp: a pointer wraps at most once.
At(rp, i) == IF rp + i < DEPTH THEN rp + i ELSE rp + i - DEPTH

\* A pointer wraps at most once (the pointers have just the bits of an address).
LEMMA WrapOnce ==
  ASSUME NEW x \in Nat, x < 2 * DEPTH
  PROVE  x % DEPTH = IF x < DEPTH THEN x ELSE x - DEPTH
BY DepthPositive

\* Advancing a pointer modulo DEPTH is At (wr_ptr and rd_ptr of sync_fifo.sv).
LEMMA Wrap ==
  ASSUME NEW rp \in Addr, NEW i \in 0 .. DEPTH
  PROVE  (rp + i) % DEPTH = At(rp, i) /\ At(rp, i) \in Addr
<1>1. rp \in Nat /\ i \in Nat /\ rp + i \in Nat /\ rp + i < 2 * DEPTH /\ rp < DEPTH
  BY DepthPositive DEF Addr
<1>2. (rp + i) % DEPTH = At(rp, i)
  <2>1. PICK x \in Nat : x = rp + i /\ x < 2 * DEPTH
    BY <1>1
  <2>2. x % DEPTH = IF x < DEPTH THEN x ELSE x - DEPTH
    BY <2>1, WrapOnce
  <2>3. At(rp, i) = IF x < DEPTH THEN x ELSE x - DEPTH
    BY <1>1, <2>1, DepthPositive DEF At
  <2> QED BY <2>1, <2>2, <2>3, Zenon
<1>3. At(rp, i) \in Addr
  BY <1>1, DepthPositive DEF Addr, At
<1> QED BY <1>2, <1>3

\* The words of a queue: those at hand, h, and n of the RAM m from rp on.
Words(h, m, rp, n) == h \o [i \in 1 .. n |-> m[(rp + i - 1) % DEPTH]]

\* The same, one word at a time (the head of sync_fifo.sv and its RAM).
LEMMA WordsFlat ==
  ASSUME NEW h \in Seq(Data), NEW m \in [Addr -> Data], NEW rp \in Addr, NEW n \in 0 .. DEPTH
  PROVE  /\ Words(h, m, rp, n) \in Seq(Data)
         /\ Len(Words(h, m, rp, n)) = Len(h) + n
         /\ \A k \in 1 .. Len(h) + n :
              Words(h, m, rp, n)[k] = IF k <= Len(h) THEN h[k] ELSE m[At(rp, k - Len(h) - 1)]
<1> DEFINE b == [i \in 1 .. n |-> m[(rp + i - 1) % DEPTH]]
<1>1. ASSUME NEW i \in 1 .. n PROVE (rp + i - 1) % DEPTH = At(rp, i - 1) /\ At(rp, i - 1) \in Addr
  <2>1. i - 1 \in 0 .. DEPTH /\ rp + (i - 1) = rp + i - 1
    BY DepthPositive DEF Addr
  <2>2. (rp + (i - 1)) % DEPTH = At(rp, i - 1) /\ At(rp, i - 1) \in Addr
    BY <2>1, Wrap
  <2> QED BY <2>1, <2>2
<1>2. b = [i \in 1 .. n |-> m[At(rp, i - 1)]]
  BY <1>1
<1>3. \A i \in 1 .. n : m[At(rp, i - 1)] \in Data
  BY <1>1
<1>4. b \in Seq(Data) /\ Len(b) = n /\ \A i \in 1 .. n : b[i] = m[At(rp, i - 1)]
  BY <1>2, <1>3
<1> HIDE DEF b
<1>5. /\ h \o b \in Seq(Data) /\ Len(h \o b) = Len(h) + n
      /\ \A k \in 1 .. Len(h) + n :
           (h \o b)[k] = IF k <= Len(h) THEN h[k] ELSE m[At(rp, k - Len(h) - 1)]
  BY <1>4, SMTT(30)
<1>6. Words(h, m, rp, n) = h \o b
  BY Zenon DEF Words, b
<1> QED BY <1>5, <1>6, Zenon

\* A word written behind the last one is the new last one: the RAM's write
\* is at wr_ptr (sync_fifo.sv).
LEMMA PutWords ==
  ASSUME NEW h \in Seq(Data), NEW m \in [Addr -> Data], NEW rp \in Addr, NEW n \in 0 .. DEPTH - 1,
         NEW d \in Data
  PROVE  Words(h, [m EXCEPT ![At(rp, n)] = d], rp, n + 1) = Append(Words(h, m, rp, n), d)
<1> DEFINE m2 == [m EXCEPT ![At(rp, n)] = d]
           v  == Words(h, m, rp, n)
           w  == Words(h, m2, rp, n + 1)
<1>1. n + 1 \in 0 .. DEPTH /\ n \in 0 .. DEPTH /\ DEPTH \in Nat
  BY DepthPositive
<1>2. m2 \in [Addr -> Data] /\ At(rp, n) \in Addr
  BY <1>1, Wrap
<1>3. \A i \in 0 .. n : At(rp, i) \in Addr /\ m2[At(rp, i)] = IF i = n THEN d ELSE m[At(rp, i)]
  <2> TAKE i \in 0 .. n
  <2>1. At(rp, i) \in Addr
    BY <1>1, Wrap
  <2>2. i # n => At(rp, i) # At(rp, n)
    BY <1>1 DEF At, Addr
  <2> QED BY <1>2, <2>1, <2>2
<1> HIDE DEF m2
<1>4. /\ v \in Seq(Data) /\ Len(v) = Len(h) + n
      /\ \A k \in 1 .. Len(h) + n :
           v[k] = IF k <= Len(h) THEN h[k] ELSE m[At(rp, k - Len(h) - 1)]
  BY <1>1, WordsFlat, ZenonT(60)
<1>5. /\ w \in Seq(Data) /\ Len(w) = Len(h) + (n + 1)
      /\ \A k \in 1 .. Len(h) + (n + 1) :
           w[k] = IF k <= Len(h) THEN h[k] ELSE m2[At(rp, k - Len(h) - 1)]
  BY <1>1, <1>2, WordsFlat, ZenonT(60)
<1> HIDE DEF v, w
<1>6. Len(v) = Len(h) + n /\ Len(w) = Len(h) + n + 1
  BY <1>1, <1>4, <1>5
<1>7. ASSUME NEW k \in 1 .. Len(w) PROVE w[k] = Append(v, d)[k]
  <2>1. CASE k <= Len(h)
    BY <1>4, <1>5, <1>6, <2>1
  <2>2. CASE ~(k <= Len(h))
    <3> DEFINE i == k - Len(h) - 1
    <3>1. i \in 0 .. n /\ (i = n <=> k = Len(v) + 1)
      BY <1>1, <1>6, <2>2
    <3>2. w[k] = m2[At(rp, i)]
      BY <1>5, <1>6, <2>2
    <3>3. k <= Len(v) => v[k] = m[At(rp, i)]
      BY <1>4, <1>6, <2>2
    <3> HIDE DEF i
    <3>4. m2[At(rp, i)] = IF i = n THEN d ELSE m[At(rp, i)]
      BY <1>3, <3>1
    <3>5. k = Len(v) + 1 => Append(v, d)[k] = d
      BY <1>4
    <3>6. k <= Len(v) => Append(v, d)[k] = v[k]
      BY <1>4
    <3> QED BY <1>1, <1>6, <3>1, <3>2, <3>3, <3>4, <3>5, <3>6
  <2> QED BY <2>1, <2>2
<1>8. Append(v, d) \in Seq(Data) /\ Len(Append(v, d)) = Len(w)
  BY <1>4, <1>6
<1>9. w = Append(v, d)
  BY <1>5, <1>7, <1>8, SeqEqual
<1> QED BY <1>9, Zenon DEF v, w, m2

\* The word after the one taken is the first of the RAM (rd_ptr advances when
\* the load starts).
LEMMA TakeWords ==
  ASSUME NEW x \in Data, NEW m \in [Addr -> Data], NEW rp \in Addr, NEW n \in 1 .. DEPTH
  PROVE  Tail(Words(<<x>>, m, rp, n)) = Words(<<m[rp]>>, m, At(rp, 1), n - 1)
<1> DEFINE rp2 == At(rp, 1)
           v   == Words(<<x>>, m, rp, n)
           w   == Words(<<m[rp]>>, m, rp2, n - 1)
<1>1. /\ n - 1 \in 0 .. DEPTH /\ n \in 0 .. DEPTH /\ 1 \in 0 .. DEPTH /\ DEPTH \in Nat
      /\ rp \in Nat /\ rp < DEPTH
  BY DepthPositive DEF Addr
<1>2. rp2 \in Addr /\ m[rp] \in Data
  BY <1>1, Wrap
<1>3. \A i \in 0 .. n - 2 : At(rp2, i) = At(rp, i + 1)
  BY <1>1 DEF At
<1>4. At(rp, 0) = rp
  BY <1>1 DEF At
<1> HIDE DEF rp2
<1>5. <<x>> \in Seq(Data) /\ <<m[rp]>> \in Seq(Data) /\ Len(<<x>>) = 1 /\ Len(<<m[rp]>>) = 1
  BY <1>2
<1>6. /\ v \in Seq(Data) /\ Len(v) = Len(<<x>>) + n
      /\ \A k \in 1 .. Len(<<x>>) + n :
           v[k] = IF k <= Len(<<x>>) THEN <<x>>[k] ELSE m[At(rp, k - Len(<<x>>) - 1)]
  BY <1>1, <1>5, WordsFlat, ZenonT(60)
<1>7. /\ w \in Seq(Data) /\ Len(w) = Len(<<m[rp]>>) + (n - 1)
      /\ \A k \in 1 .. Len(<<m[rp]>>) + (n - 1) :
           w[k] = IF k <= Len(<<m[rp]>>) THEN <<m[rp]>>[k] ELSE m[At(rp2, k - Len(<<m[rp]>>) - 1)]
  BY <1>1, <1>2, <1>5, WordsFlat, ZenonT(60)
<1> HIDE DEF v, w
<1>8. Len(v) = 1 + n /\ \A k \in 1 .. 1 + n : k # 1 => v[k] = m[At(rp, k - 1 - 1)]
  BY <1>1, <1>5, <1>6
<1>9. Len(w) = n /\ w[1] = m[rp] /\ \A k \in 1 .. n : k # 1 => w[k] = m[At(rp2, k - 1 - 1)]
  BY <1>1, <1>5, <1>7
<1>11. ASSUME NEW k \in 1 .. n PROVE w[k] = v[k + 1]
  <2>1. k + 1 \in 1 .. 1 + n /\ (k + 1) - 1 - 1 = k - 1
    BY <1>1
  <2>2. v[k + 1] = m[At(rp, k - 1)]
    BY <1>1, <1>8, <2>1
  <2>3. CASE k = 1
    BY <1>1, <1>4, <1>9, <2>2, <2>3
  <2>4. CASE k # 1
    <3> DEFINE i == k - 2
    <3>1. i \in 0 .. n - 2 /\ i + 1 = k - 1 /\ k - 1 - 1 = i
      BY <1>1, <2>4
    <3>2. w[k] = m[At(rp2, i)]
      BY <1>1, <1>9, <2>4, <3>1
    <3> HIDE DEF i
    <3> QED BY <1>3, <2>2, <3>1, <3>2
  <2> QED BY <2>3, <2>4
<1>12. Tail(v) \in Seq(Data) /\ Len(Tail(v)) = n /\ \A k \in 1 .. n : Tail(v)[k] = v[k + 1]
  BY <1>1, <1>6, <1>8, HeadTailProperties
<1>13. Tail(v) = w
  BY <1>7, <1>9, <1>11, <1>12, SeqEqual
<1> QED BY <1>13, Zenon DEF v, w, rp2

\* A word taken and a word written at the same edge.
LEMMA TakePut ==
  ASSUME NEW x \in Data, NEW m \in [Addr -> Data], NEW rp \in Addr, NEW n \in 1 .. DEPTH - 1,
         NEW d \in Data
  PROVE  Words(<<m[rp]>>, [m EXCEPT ![At(rp, n)] = d], At(rp, 1), n)
           = Append(Tail(Words(<<x>>, m, rp, n)), d)
<1>1. /\ n \in 1 .. DEPTH /\ n - 1 \in 0 .. DEPTH - 1 /\ (n - 1) + 1 = n /\ 1 \in 0 .. DEPTH
      /\ rp \in Nat /\ rp < DEPTH /\ n \in Nat /\ 1 <= n /\ n < DEPTH /\ DEPTH \in Nat
  BY DepthPositive DEF Addr
<1>2. At(rp, 1) \in Addr /\ <<m[rp]>> \in Seq(Data)
  BY <1>1, Wrap
<1>3. At(At(rp, 1), n - 1) = At(rp, n)
  BY <1>1 DEF At
<1>4. Words(<<m[rp]>>, [m EXCEPT ![At(At(rp, 1), n - 1)] = d], At(rp, 1), (n - 1) + 1)
        = Append(Words(<<m[rp]>>, m, At(rp, 1), n - 1), d)
  BY <1>1, <1>2, PutWords, Zenon
<1>5. Tail(Words(<<x>>, m, rp, n)) = Words(<<m[rp]>>, m, At(rp, 1), n - 1)
  BY <1>1, TakeWords, Zenon
<1> QED BY <1>1, <1>3, <1>4, <1>5, Zenon

\* No words in the RAM, and how many between the pointers (wr_ptr - rd_ptr).
LEMMA NoWords ==
  ASSUME NEW h \in Seq(Data), NEW m \in [Addr -> Data], NEW rp \in Addr
  PROVE  Words(h, m, rp, 0) = h
<1> DEFINE w == Words(h, m, rp, 0)
<1>1. /\ w \in Seq(Data) /\ Len(w) = Len(h) + 0
      /\ \A k \in 1 .. Len(h) + 0 :
           w[k] = IF k <= Len(h) THEN h[k] ELSE m[At(rp, k - Len(h) - 1)]
  <2>1. 0 \in 0 .. DEPTH
    BY DepthPositive
  <2> QED BY <2>1, WordsFlat, ZenonT(60)
<1> HIDE DEF w
<1>2. w = h
  BY <1>1, SeqEqual
<1> QED BY <1>2, Zenon DEF w

LEMMA Between ==
  ASSUME NEW rp \in Addr, NEW n \in 0 .. DEPTH - 1
  PROVE  /\ (At(rp, n) + DEPTH - rp) % DEPTH = n
         /\ At(At(rp, n), 1) = At(rp, n + 1)
         /\ At(At(rp, 1), n) = At(rp, n + 1)
         /\ n >= 1 => At(At(rp, 1), n - 1) = At(rp, n)
<1>1. rp \in Nat /\ rp < DEPTH /\ n \in Nat /\ n < DEPTH /\ DEPTH \in Nat
  BY DepthPositive DEF Addr
<1>2. PICK x \in Nat : x = At(rp, n) + DEPTH - rp /\ (x = n \/ x = n + DEPTH)
  BY <1>1 DEF At
<1>3. x % DEPTH = n
  BY <1>1, <1>2, WrapOnce
<1>4. (At(rp, n) + DEPTH - rp) % DEPTH = n
  BY <1>2, <1>3, Zenon
<1>5. At(At(rp, n), 1) = At(rp, n + 1)
  BY <1>1 DEF At
<1>6. n >= 1 => At(At(rp, 1), n - 1) = At(rp, n)
  BY <1>1 DEF At
<1>7. At(At(rp, 1), n) = At(rp, n + 1)
  BY <1>1 DEF At
<1> QED BY <1>4, <1>5, <1>6, <1>7

(***************************************************************************)
(* The registers of the queue                                              *)
(***************************************************************************)

\* The words behind the head (they are all in the RAM).
Rest == IF count = 0 THEN 0 ELSE count - 1

Busy == out.valid \/ load[1] \/ load[2]

\* The head is in one place, it is there exactly when anything is queued, and
\* the write pointer is as far ahead as count says.
FifoIInv == /\ TypeOK
            /\ out.valid => load = <<FALSE, FALSE>>
            /\ Busy <=> count # 0
            /\ wr_ptr = At(rd_ptr, Rest)

\* The head, case by case (sync_fifo.sv: out_data, rdata_pipe, rdata).
HeadFacts == /\ Head1 \in Seq(Data)
             /\ count # 0 => \E x \in Data : Head1 = <<x>>
             /\ count = 0 => Head1 = << >>
             /\ out.valid => Head1 = <<out.data>>
             /\ load[1] => Head1 = <<ram.pipe>>
             /\ load[2] => Head1 = <<ram.rdata>>

\* What queue stands for.
QueueFacts ==
  /\ rd_ptr \in Addr /\ mem \in [Addr -> Data] /\ Rest \in 0 .. DEPTH - 1 /\ InRam = Rest
  /\ queue = Words(Head1, mem, rd_ptr, Rest)
  /\ queue \in Seq(Data) /\ Len(queue) = count
  /\ out.valid => queue # << >> /\ Head(queue) = out.data

\* One head, in the output register or one of the read registers of the RAM.
LEMMA HeadCases == FifoIInv => HeadFacts
<1> SUFFICES ASSUME FifoIInv PROVE HeadFacts
  OBVIOUS
<1>1. out.data \in Data /\ ram.pipe \in Data /\ ram.rdata \in Data
  BY DEF FifoIInv, TypeOK
<1>2. /\ out.valid \in BOOLEAN /\ load[1] \in BOOLEAN /\ load[2] \in BOOLEAN
      /\ ~(out.valid /\ load[1]) /\ ~(out.valid /\ load[2]) /\ ~(load[1] /\ load[2])
  <2>1. /\ out.valid \in BOOLEAN
        /\ load \in {<<FALSE, FALSE>>, <<TRUE, FALSE>>, <<FALSE, TRUE>>}
        /\ out.valid => load = <<FALSE, FALSE>>
    BY DEF FifoIInv, TypeOK
  <2>2. CASE load = <<FALSE, FALSE>>
    BY <2>1, <2>2
  <2>3. CASE load = <<TRUE, FALSE>>
    <3>1. load # <<FALSE, FALSE>>
      BY <2>3
    <3> QED BY <2>1, <2>3, <3>1
  <2>4. CASE load = <<FALSE, TRUE>>
    <3>1. load # <<FALSE, FALSE>>
      BY <2>4
    <3> QED BY <2>1, <2>4, <3>1
  <2> QED BY <2>1, <2>2, <2>3, <2>4
<1>3. out.valid => Head1 = <<out.data>>
  BY <1>2 DEF Head1
<1>4. load[1] => Head1 = <<ram.pipe>>
  BY <1>2 DEF Head1
<1>5. load[2] => Head1 = <<ram.rdata>>
  BY <1>2 DEF Head1
<1>6. ~Busy => Head1 = << >>
  BY <1>2 DEF Head1, Busy
<1>7. count = 0 <=> ~Busy
  BY DEF FifoIInv
<1>8. CASE out.valid
  <2>1. count # 0 /\ Head1 = <<out.data>> /\ <<out.data>> \in Seq(Data)
    BY <1>1, <1>3, <1>7, <1>8 DEF Busy
  <2> QED BY <1>1, <1>2, <1>3, <1>4, <1>5, <1>8, <2>1, Zenon DEF HeadFacts
<1>9. CASE load[1]
  <2>1. count # 0 /\ Head1 = <<ram.pipe>> /\ <<ram.pipe>> \in Seq(Data)
    BY <1>1, <1>4, <1>7, <1>9 DEF Busy
  <2> QED BY <1>1, <1>2, <1>3, <1>4, <1>5, <1>9, <2>1, Zenon DEF HeadFacts
<1>10. CASE load[2]
  <2>1. count # 0 /\ Head1 = <<ram.rdata>> /\ <<ram.rdata>> \in Seq(Data)
    BY <1>1, <1>5, <1>7, <1>10 DEF Busy
  <2> QED BY <1>1, <1>2, <1>3, <1>4, <1>5, <1>10, <2>1, Zenon DEF HeadFacts
<1>11. CASE ~Busy
  BY <1>2, <1>6, <1>7, <1>11 DEF Busy, HeadFacts
<1> QED BY <1>8, <1>9, <1>10, <1>11 DEF Busy, HeadFacts

\* The head and the words between the pointers make up the queue.
LEMMA QueueIs == FifoIInv => QueueFacts
<1> SUFFICES ASSUME FifoIInv PROVE QueueFacts
  OBVIOUS
<1>1. rd_ptr \in Addr /\ mem \in [Addr -> Data] /\ Rest \in 0 .. DEPTH - 1
  BY DepthPositive DEF FifoIInv, TypeOK, Rest
<1>2. InRam = Rest
  BY <1>1, Between DEF InRam, FifoIInv
<1>3. queue = Words(Head1, mem, rd_ptr, Rest)
  BY <1>2 DEF queue, Words
<1>4. Head1 \in Seq(Data) /\ Len(Head1) = (IF count = 0 THEN 0 ELSE 1)
  BY HeadCases DEF FifoIInv, TypeOK, HeadFacts
<1>5. /\ queue \in Seq(Data) /\ Len(queue) = Len(Head1) + Rest
      /\ \A k \in 1 .. Len(Head1) + Rest :
           queue[k] = IF k <= Len(Head1) THEN Head1[k] ELSE mem[At(rd_ptr, k - Len(Head1) - 1)]
  <2>1. Rest \in 0 .. DEPTH
    BY <1>1, DepthPositive
  <2> QED BY <1>1, <1>3, <1>4, <2>1, WordsFlat, ZenonT(60)
<1>6. Len(queue) = count
  BY <1>4, <1>5 DEF Rest, FifoIInv, TypeOK
<1>7. ASSUME out.valid PROVE queue # << >> /\ Head(queue) = out.data
  <2>1. count # 0 /\ Head1 = <<out.data>>
    BY <1>7, HeadCases DEF FifoIInv, Busy, HeadFacts
  <2>2. Len(Head1) = 1 /\ Head1[1] = out.data
    BY <2>1
  <2>3. queue[1] = Head1[1]
    BY <1>1, <1>5, <2>2
  <2> QED BY <1>5, <1>6, <2>1, <2>2, <2>3
<1> QED BY <1>1, <1>2, <1>3, <1>5, <1>6, <1>7 DEF QueueFacts

\* The same of the registers after an edge.
LEMMA NextFacts == FifoIInv' => HeadFacts' /\ QueueFacts'
BY HeadCases, QueueIs, PTL

\* What an edge of the queue may be (Channel).
QueueStep(d) == \/ Chan!Put(d) \/ Chan!Take \/ Chan!PutAndTake(d)
                \/ UNCHANGED <<queue, taken>>

\* The registers that an edge loads keep their width whatever it does.
LEMMA EdgeType ==
  ASSUME FifoIInv, NEW wr \in BOOLEAN, NEW rd \in BOOLEAN, NEW d \in Data, RamNext(wr, d, rd)
  PROVE  /\ mem' \in [Addr -> Data] /\ ram' \in [pipe : Data, rdata : Data]
         /\ ram'.pipe = mem[rd_ptr] /\ ram'.rdata = ram.pipe
<1>1. /\ mem \in [Addr -> Data] /\ ram \in [pipe : Data, rdata : Data]
      /\ rd_ptr \in Addr /\ wr_ptr \in Addr
  BY DEF FifoIInv, TypeOK
<1>2. mem[rd_ptr] \in Data /\ ram.pipe \in Data
  BY <1>1
<1> QED BY <1>1, <1>2 DEF RamNext

\* What a handshake means for the word count (sync_fifo.sv: wr_ready, direct_write).
LEMMA Handshake ==
  ASSUME FifoIInv, NEW wr \in BOOLEAN, NEW rd \in BOOLEAN
  PROVE  /\ RdFire(rd) => out.valid /\ count # 0
         /\ WrFire(wr, rd) /\ ~RdFire(rd) => count < DEPTH
         /\ DirectWrite(wr, rd) => WrFire(wr, rd) /\ count = (IF RdFire(rd) THEN 1 ELSE 0)
         /\ WrFire(wr, rd) /\ ~DirectWrite(wr, rd) => RamWrite(wr, rd) /\ count >= (IF RdFire(rd) THEN 2 ELSE 1)
         /\ ~(WrFire(wr, rd) /\ ~DirectWrite(wr, rd)) => ~RamWrite(wr, rd)
         /\ StartLoad(rd) <=> RdFire(rd) /\ count > 1
         /\ CountNext(wr, rd) = (count + IF WrFire(wr, rd) THEN 1 ELSE 0) - IF RdFire(rd) THEN 1 ELSE 0
         /\ CountNext(wr, rd) \in 0 .. DEPTH
<1>1. count \in 0 .. DEPTH /\ out.valid \in BOOLEAN /\ (out.valid => count # 0)
  BY DEF FifoIInv, TypeOK, Busy
<1>2. PICK x \in Nat : /\ x = (count + IF WrFire(wr, rd) THEN 1 ELSE 0) - IF RdFire(rd) THEN 1 ELSE 0
                      /\ x \in 0 .. DEPTH
  BY <1>1, DepthPositive DEF WrFire, RdFire
<1>3. x % (2 * DEPTH) = x
  BY <1>2, DepthPositive
<1>4. CountNext(wr, rd) = x
  BY <1>2, <1>3, Zenon DEF CountNext
<1> QED BY <1>1, <1>2, <1>4 DEF RdFire, WrFire, DirectWrite, RamWrite, StartLoad

\* An edge without reset keeps the shape of the queue and is a step of the
\* channel (sync_fifo.sv, the clocked block).
LEMMA EdgeStep ==
  ASSUME FifoIInv, NEW wr \in BOOLEAN, NEW rd \in BOOLEAN, NEW d \in Data, Edge(wr, d, rd)
  PROVE  FifoIInv' /\ QueueStep(d)
<1> DEFINE R == RdFire(rd)
           W == WrFire(wr, rd)
           D == DirectWrite(wr, rd)
<1>1. HeadFacts /\ QueueFacts /\ TypeOK /\ (out.valid => load = <<FALSE, FALSE>>) /\ (Busy <=> count # 0)
      /\ wr_ptr = At(rd_ptr, Rest) /\ wr_ptr \in Addr /\ rd_ptr \in Addr /\ count \in 0 .. DEPTH
  BY HeadCases, QueueIs DEF FifoIInv, TypeOK
<1>2. /\ mem' \in [Addr -> Data] /\ ram' \in [pipe : Data, rdata : Data]
      /\ ram'.pipe = mem[rd_ptr] /\ ram'.rdata = ram.pipe
      /\ mem' = IF RamWrite(wr, rd) THEN [mem EXCEPT ![wr_ptr] = d] ELSE mem
  BY EdgeType DEF Edge, RamNext
<1>3. \A p \in Addr : (p + 1) % DEPTH = At(p, 1) /\ At(p, 1) \in Addr
  <2>1. 1 \in 0 .. DEPTH
    BY DepthPositive
  <2> QED BY <2>1, Wrap
<1>4. /\ wr_ptr' = IF W /\ ~D THEN At(wr_ptr, 1) ELSE wr_ptr
      /\ rd_ptr' = IF R /\ count > 1 THEN At(rd_ptr, 1) ELSE rd_ptr
      /\ wr_ptr' \in Addr /\ rd_ptr' \in Addr
  BY <1>1, <1>3, Handshake DEF Edge, Advance, RamWrite, StartLoad
<1>5. /\ count' \in 0 .. DEPTH
      /\ count' = (count + IF W THEN 1 ELSE 0) - IF R THEN 1 ELSE 0
  BY Handshake DEF Edge
<1>6. out' \in [valid : BOOLEAN, data : Data]
  <2>1. out.data \in Data /\ ram.rdata \in Data
    BY <1>1 DEF TypeOK
  <2>2. (IF D THEN d ELSE IF load[2] THEN ram.rdata ELSE out.data) \in Data
    BY <2>1
  <2>3. (D \/ (~R /\ (out.valid \/ load[2]))) \in BOOLEAN
    OBVIOUS
  <2> QED BY <2>2, <2>3, Zenon DEF Edge, OutNext
<1>7. /\ out'.valid <=> D \/ (~R /\ (out.valid \/ load[2]))
      /\ out'.data = IF D THEN d ELSE IF load[2] THEN ram.rdata ELSE out.data
  BY DEF Edge, OutNext
<1>8. /\ ~R /\ ~D => load' = <<FALSE, load[1]>>
      /\ R /\ ~D /\ count > 1 => load' = <<TRUE, FALSE>>
      /\ D \/ (R /\ ~(count > 1)) => load' = <<FALSE, FALSE>>
  BY <1>1 DEF Edge, LoadNext, StartLoad
<1>9. taken' = (IF R THEN out.data ELSE taken) /\ taken' \in Data
  BY <1>1 DEF Edge, TypeOK
<1>10. /\ load[1] \in BOOLEAN /\ load[2] \in BOOLEAN /\ out.valid \in BOOLEAN
       /\ (out.valid => ~load[1] /\ ~load[2]) /\ ~(load[1] /\ load[2])
       /\ R => out.valid
  <2>1. load \in {<<FALSE, FALSE>>, <<TRUE, FALSE>>, <<FALSE, TRUE>>} /\ out.valid \in BOOLEAN
    BY <1>1 DEF TypeOK
  <2>2. CASE load = <<FALSE, FALSE>>
    BY <2>1, <2>2, Handshake
  <2>3. CASE load = <<TRUE, FALSE>>
    <3>1. load # <<FALSE, FALSE>>
      BY <2>3
    <3> QED BY <1>1, <2>1, <2>3, <3>1, Handshake
  <2>4. CASE load = <<FALSE, TRUE>>
    <3>1. load # <<FALSE, FALSE>>
      BY <2>4
    <3> QED BY <1>1, <2>1, <2>4, <3>1, Handshake
  <2> QED BY <2>1, <2>2, <2>3, <2>4
<1>11. /\ load' \in {<<FALSE, FALSE>>, <<TRUE, FALSE>>, <<FALSE, TRUE>>}
       /\ out'.valid => load' = <<FALSE, FALSE>>
       /\ Busy' <=> count' # 0
  <2>0. D => W /\ count = (IF R THEN 1 ELSE 0)
    BY Handshake
  <2>1. CASE ~R /\ ~D /\ load[1]
    <3>1. load' = <<FALSE, TRUE>>
      <4>1. load[1] = TRUE
        BY <1>10, <2>1
      <4>2. load' = <<FALSE, load[1]>>
        BY <1>8, <2>1, Zenon
      <4> QED BY <4>1, <4>2, Zenon
    <3>2. load'[2] /\ ~load'[1]
      BY <3>1
    <3> QED BY <1>1, <1>5, <1>7, <1>10, <2>1, <3>1, <3>2 DEF Busy
  <2>2. CASE ~R /\ ~D /\ ~load[1]
    <3>1. load' = <<FALSE, FALSE>>
      <4>1. load[1] = FALSE
        BY <1>10, <2>2
      <4>2. load' = <<FALSE, load[1]>>
        BY <1>8, <2>2, Zenon
      <4> QED BY <4>1, <4>2, Zenon
    <3>2. ~load'[1] /\ ~load'[2]
      BY <3>1
    <3>3. W => count # 0
      BY <2>2, Handshake
    <3> QED BY <1>1, <1>5, <1>7, <1>10, <2>2, <3>1, <3>2, <3>3 DEF Busy
  <2>3. CASE R /\ ~D /\ count > 1
    <3>1. load' = <<TRUE, FALSE>>
      BY <1>8, <2>3, Zenon
    <3>2. load'[1]
      BY <3>1
    <3> QED BY <1>1, <1>5, <1>7, <2>3, <3>1, <3>2 DEF Busy
  <2>4. CASE D \/ (R /\ ~(count > 1))
    <3>1. load' = <<FALSE, FALSE>>
      BY <1>8, <2>4, Zenon
    <3>2. ~load'[1] /\ ~load'[2]
      BY <3>1
    <3>3. R /\ ~D => ~W \/ count > 1
      BY <1>1, Handshake
    <3>4. R => count # 0
      BY Handshake
    <3> QED BY <1>1, <1>5, <1>7, <2>0, <2>4, <3>1, <3>2, <3>3, <3>4 DEF Busy
  <2> QED BY <2>1, <2>2, <2>3, <2>4
<1>12. wr_ptr' = At(rd_ptr', Rest')
  <2>1. /\ Rest \in 0 .. DEPTH - 1 /\ At(At(rd_ptr, Rest), 1) = At(rd_ptr, Rest + 1)
        /\ At(At(rd_ptr, 1), Rest) = At(rd_ptr, Rest + 1)
        /\ Rest >= 1 => At(At(rd_ptr, 1), Rest - 1) = At(rd_ptr, Rest)
    BY <1>1, Between DEF QueueFacts
  <2>2. Rest = (IF count = 0 THEN 0 ELSE count - 1) /\ Rest' = (IF count' = 0 THEN 0 ELSE count' - 1)
    BY DEF Rest
  <2>3. /\ W /\ ~D => count >= (IF R THEN 2 ELSE 1)
        /\ D => W /\ count = (IF R THEN 1 ELSE 0)
        /\ R => count # 0
    BY Handshake
  <2>4. CASE R /\ W /\ ~D
    <3>1. wr_ptr' = At(At(rd_ptr, Rest), 1) /\ rd_ptr' = At(rd_ptr, 1) /\ Rest' = Rest
      BY <1>1, <1>4, <1>5, <2>2, <2>3, <2>4
    <3> QED BY <2>1, <3>1
  <2>5. CASE R /\ ~(W /\ ~D) /\ count > 1
    <3>1. wr_ptr' = At(rd_ptr, Rest) /\ rd_ptr' = At(rd_ptr, 1) /\ Rest' = Rest - 1 /\ Rest >= 1
      BY <1>1, <1>4, <1>5, <2>2, <2>3, <2>5
    <3> QED BY <2>1, <3>1
  <2>6. CASE ~R /\ W /\ ~D
    <3>1. wr_ptr' = At(At(rd_ptr, Rest), 1) /\ rd_ptr' = rd_ptr /\ Rest' = Rest + 1
      BY <1>1, <1>4, <1>5, <2>2, <2>3, <2>6
    <3> QED BY <2>1, <3>1
  <2>7. CASE ~(W /\ ~D) /\ ~(R /\ count > 1)
    <3>1. wr_ptr' = At(rd_ptr, Rest) /\ rd_ptr' = rd_ptr /\ Rest' = Rest
      BY <1>1, <1>4, <1>5, <2>2, <2>3, <2>7
    <3> QED BY <3>1
  <2> QED BY <2>4, <2>5, <2>6, <2>7
<1>13. FifoIInv'
  BY <1>2, <1>4, <1>5, <1>6, <1>9, <1>11, <1>12 DEF FifoIInv, TypeOK
<1>14. HeadFacts' /\ QueueFacts'
  BY <1>13, NextFacts
<1>15. /\ rd_ptr \in Addr /\ mem \in [Addr -> Data] /\ mem' \in [Addr -> Data]
       /\ Rest \in 0 .. DEPTH - 1 /\ wr_ptr = At(rd_ptr, Rest)
       /\ queue = Words(Head1, mem, rd_ptr, Rest)
       /\ queue' = Words(Head1', mem', rd_ptr', Rest')
       /\ Head1 \in Seq(Data) /\ Head1' \in Seq(Data) /\ Len(queue) = count
  BY <1>1, <1>2, <1>14 DEF QueueFacts, HeadFacts
<1>16. /\ out.data \in Data /\ mem[rd_ptr] \in Data
       /\ R => Head1 = <<out.data>> /\ queue # << >> /\ taken' = Head(queue)
  BY <1>1, <1>9, <1>10, <1>15 DEF HeadFacts, QueueFacts, TypeOK
<1>17. D => Head1' = <<d>> /\ W /\ count = (IF R THEN 1 ELSE 0)
  BY <1>7, <1>14, Handshake DEF HeadFacts
<1>18. Rest = (IF count = 0 THEN 0 ELSE count - 1) /\ Rest' = (IF count' = 0 THEN 0 ELSE count' - 1)
  BY DEF Rest
<1>19. CASE R /\ D
  <2>1. count = 1 /\ Rest = 0 /\ Rest' = 0 /\ rd_ptr' \in Addr
    BY <1>4, <1>5, <1>17, <1>18, <1>19
  <2>2. queue = <<out.data>> /\ queue' = <<d>>
    BY <1>15, <1>16, <1>17, <1>19, <2>1, NoWords
  <2>3. queue' = Append(Tail(queue), d)
    BY <2>2
  <2> QED BY <1>13, <1>16, <1>19, <2>3 DEF QueueStep, Chan!PutAndTake
<1>20. CASE R /\ W /\ ~D
  <2>1. /\ count > 1 /\ Rest \in 1 .. DEPTH - 1 /\ Rest' = Rest
        /\ rd_ptr' = At(rd_ptr, 1)
        /\ mem' = [mem EXCEPT ![wr_ptr] = d]
    BY <1>1, <1>2, <1>4, <1>5, <1>15, <1>18, <1>20, Handshake, DepthPositive
  <2>2. Head1' = <<mem[rd_ptr]>>
    <3>1. load' = <<TRUE, FALSE>>
      BY <1>8, <1>20, <2>1, Zenon
    <3>2. load'[1]
      BY <3>1
    <3> QED BY <1>2, <1>14, <3>2 DEF HeadFacts
  <2>3. queue = Words(<<out.data>>, mem, rd_ptr, Rest)
    BY <1>15, <1>16, <1>20, Zenon
  <2>4. Words(<<mem[rd_ptr]>>, [mem EXCEPT ![At(rd_ptr, Rest)] = d], At(rd_ptr, 1), Rest)
          = Append(Tail(Words(<<out.data>>, mem, rd_ptr, Rest)), d)
    <3>1. out.data \in Data /\ mem \in [Addr -> Data] /\ rd_ptr \in Addr /\ Rest \in 1 .. DEPTH - 1
          /\ d \in Data
      BY <1>15, <1>16, <2>1
    <3> HIDE DEF R, W, D
    <3> QED BY <3>1, TakePut, ZenonT(30)
  <2>5. queue' = Append(Tail(queue), d)
    BY <1>15, <2>1, <2>2, <2>3, <2>4, Zenon
  <2> QED BY <1>13, <1>16, <1>20, <2>5 DEF QueueStep, Chan!PutAndTake
<1>21. CASE R /\ ~W
  <2>1. mem' = mem /\ ~D
    BY <1>2, <1>17, <1>21, Handshake
  <2>2. CASE count > 1
    <3>1. Rest \in 1 .. DEPTH /\ Rest' = Rest - 1 /\ rd_ptr' = At(rd_ptr, 1)
      BY <1>1, <1>4, <1>5, <1>15, <1>18, <1>21, <2>2, DepthPositive
    <3>2. Head1' = <<mem[rd_ptr]>>
      <4>1. load' = <<TRUE, FALSE>>
        BY <1>8, <1>21, <2>1, <2>2, Zenon
      <4>2. load'[1]
        BY <4>1
      <4> QED BY <1>2, <1>14, <4>2 DEF HeadFacts
    <3>3. queue = Words(<<out.data>>, mem, rd_ptr, Rest)
      BY <1>15, <1>16, <1>21, Zenon
    <3>4. Tail(Words(<<out.data>>, mem, rd_ptr, Rest)) = Words(<<mem[rd_ptr]>>, mem, At(rd_ptr, 1), Rest - 1)
      BY <1>15, <1>16, <3>1, TakeWords, Zenon
    <3>5. queue' = Tail(queue)
      BY <1>15, <2>1, <3>1, <3>2, <3>3, <3>4, Zenon
    <3> QED BY <1>13, <1>16, <1>21, <3>5 DEF QueueStep, Chan!Take
  <2>3. CASE ~(count > 1)
    <3>1. count = 1 /\ count' = 0 /\ Rest = 0 /\ Rest' = 0 /\ rd_ptr' \in Addr
      BY <1>1, <1>4, <1>5, <1>18, <1>21, <2>3, Handshake
    <3>2. Head1' = << >>
      BY <1>14, <3>1 DEF HeadFacts
    <3>3. queue = <<out.data>> /\ queue' = << >>
      BY <1>15, <1>16, <1>21, <3>1, <3>2, NoWords
    <3>4. queue' = Tail(queue)
      BY <3>3
    <3> QED BY <1>13, <1>16, <1>21, <3>4 DEF QueueStep, Chan!Take
  <2> QED BY <2>2, <2>3
<1>22. CASE ~R /\ D
  <2>1. count = 0 /\ Rest = 0 /\ Rest' = 0 /\ rd_ptr' \in Addr
    BY <1>4, <1>5, <1>17, <1>18, <1>22
  <2>2. Head1 = << >>
    BY <1>1, <2>1 DEF HeadFacts
  <2>3. queue = << >> /\ queue' = <<d>>
    BY <1>15, <1>17, <1>22, <2>1, <2>2, NoWords
  <2>4. queue' = Append(queue, d)
    BY <2>3
  <2>5. Len(queue) < DEPTH
    BY <1>15, <2>1, DepthPositive
  <2> QED BY <1>13, <1>9, <1>22, <2>4, <2>5 DEF QueueStep, Chan!Put
<1>23. ~R /\ ~D => Head1' = Head1
  <2> SUFFICES ASSUME ~R, ~D PROVE Head1' = Head1
    OBVIOUS
  <2>1. load' = <<FALSE, load[1]>>
    BY <1>8
  <2>2. CASE out.valid
    BY <1>1, <1>7, <1>10, <1>14, <2>2 DEF HeadFacts
  <2>3. CASE load[1]
    <3>1. load'[2]
      BY <2>1, <2>3
    <3> QED BY <1>1, <1>2, <1>14, <2>3, <3>1 DEF HeadFacts
  <2>4. CASE load[2]
    <3>1. out'.valid /\ out'.data = ram.rdata
      BY <1>7, <2>4
    <3> QED BY <1>1, <1>14, <2>4, <3>1 DEF HeadFacts
  <2>5. CASE ~Busy
    <3>1. count = 0
      BY <1>1, <2>5
    <3>2. ~W
      BY <3>1, Handshake
    <3>3. count' = 0
      BY <1>5, <3>1, <3>2
    <3> QED BY <1>1, <1>14, <3>1, <3>3 DEF HeadFacts
  <2> QED BY <2>2, <2>3, <2>4, <2>5 DEF Busy
<1>24. CASE ~R /\ W /\ ~D
  <2>1. /\ count < DEPTH /\ count >= 1 /\ Rest' = Rest + 1 /\ rd_ptr' = rd_ptr
        /\ mem' = [mem EXCEPT ![wr_ptr] = d]
    BY <1>1, <1>2, <1>4, <1>5, <1>18, <1>24, Handshake
  <2>2. Words(Head1, [mem EXCEPT ![At(rd_ptr, Rest)] = d], rd_ptr, Rest + 1)
          = Append(Words(Head1, mem, rd_ptr, Rest), d)
    BY <1>15, PutWords, Zenon
  <2>3. queue' = Append(queue, d)
    BY <1>15, <1>23, <1>24, <2>1, <2>2, Zenon
  <2> QED BY <1>13, <1>9, <1>15, <1>24, <2>1, <2>3 DEF QueueStep, Chan!Put
<1>25. CASE ~R /\ ~W
  <2>1. ~D /\ mem' = mem /\ count' = count /\ rd_ptr' = rd_ptr
    BY <1>1, <1>2, <1>4, <1>5, <1>17, <1>25, Handshake
  <2>2. Rest' = Rest
    BY <1>18, <2>1
  <2>3. queue' = queue
    BY <1>15, <1>23, <1>25, <2>1, <2>2, Zenon
  <2> QED BY <1>13, <1>9, <1>25, <2>3 DEF QueueStep
<1>26. D => W
  BY Handshake
<1> QED BY <1>13, <1>19, <1>20, <1>21, <1>22, <1>24, <1>25, <1>26

\* A reset empties the queue, whatever was under way in the RAM.
LEMMA ResetStep ==
  ASSUME FifoIInv, NEW wr \in BOOLEAN, NEW rd \in BOOLEAN, NEW d \in Data, Reset(wr, d, rd)
  PROVE  FifoIInv' /\ queue' = << >> /\ UNCHANGED taken
<1>1. mem' \in [Addr -> Data] /\ ram' \in [pipe : Data, rdata : Data]
  BY EdgeType DEF Reset
<1>2. out.data \in Data /\ taken' \in Data /\ taken' = taken
  BY DEF Reset, FifoIInv, TypeOK
<1>3. /\ count' = 0 /\ wr_ptr' = 0 /\ rd_ptr' = 0 /\ 0 \in Addr
      /\ load' = <<FALSE, FALSE>>
  BY DepthPositive DEF Reset, Addr
<1>4. out' \in [valid : BOOLEAN, data : Data] /\ ~out'.valid
  BY <1>2 DEF Reset, FifoIInv, TypeOK
<1>5. wr_ptr' = At(rd_ptr', Rest')
  BY <1>3, DepthPositive DEF Rest, At
<1>6. ~Busy'
  <2>1. ~load'[1] /\ ~load'[2]
    BY <1>3
  <2> QED BY <1>4, <2>1 DEF Busy
<1>7. FifoIInv'
  BY <1>1, <1>2, <1>3, <1>4, <1>5, <1>6, DepthPositive DEF FifoIInv, TypeOK
<1>8. queue' \in Seq(Data) /\ Len(queue') = 0
  BY <1>3, <1>7, NextFacts DEF QueueFacts
<1> QED BY <1>2, <1>7, <1>8

\* The queue starts empty.
LEMMA FifoStart == Init => FifoIInv /\ queue = << >>
<1> SUFFICES ASSUME Init PROVE FifoIInv /\ queue = << >>
  OBVIOUS
<1>1. /\ count = 0 /\ wr_ptr = 0 /\ rd_ptr = 0 /\ 0 \in Addr
      /\ load = <<FALSE, FALSE>>
  BY DepthPositive DEF Init, Addr
<1>2. out \in [valid : BOOLEAN, data : Data] /\ ~out.valid
  BY DEF Init
<1>3. ~Busy
  <2>1. ~load[1] /\ ~load[2]
    BY <1>1
  <2> QED BY <1>2, <2>1 DEF Busy
<1>4. wr_ptr = At(rd_ptr, Rest)
  BY <1>1, DepthPositive DEF Rest, At
<1>5. FifoIInv
  BY <1>1, <1>2, <1>3, <1>4, DepthPositive DEF Init, FifoIInv, TypeOK
<1>6. queue \in Seq(Data) /\ Len(queue) = 0
  BY <1>1, <1>5, QueueIs DEF QueueFacts
<1> QED BY <1>5, <1>6

\* Nothing changes between two edges.
LEMMA FifoStutter == FifoIInv /\ UNCHANGED vars => FifoIInv' /\ UNCHANGED <<queue, taken>>
<1> SUFFICES ASSUME FifoIInv, UNCHANGED vars PROVE FifoIInv' /\ UNCHANGED <<queue, taken>>
  OBVIOUS
<1>1. FifoIInv'
  BY DEF FifoIInv, TypeOK, Busy, Rest, vars
<1>2. queue' = queue /\ taken' = taken
  BY DEF queue, Head1, InRam, vars
<1> QED BY <1>1, <1>2

\* A step of the queue is a step of the channel, or a reset that empties it.
LEMMA FifoStep ==
  FifoIInv /\ [Next]_vars =>
    FifoIInv' /\ [Chan!Next \/ (ResetEdge /\ queue' = << >>)]_<<queue, taken>>
<1> SUFFICES ASSUME FifoIInv, [Next]_vars
             PROVE  /\ FifoIInv'
                    /\ Chan!Next \/ (ResetEdge /\ queue' = << >>) \/ UNCHANGED <<queue, taken>>
  OBVIOUS
<1>1. CASE Clock
  <2>1. PICK wr \in BOOLEAN, rd \in BOOLEAN, d \in Data : Edge(wr, d, rd)
    BY <1>1 DEF Clock
  <2>2. FifoIInv' /\ QueueStep(d)
    BY <2>1, EdgeStep
  <2> QED BY <2>2, Zenon DEF QueueStep, Chan!Next
<1>2. CASE ResetEdge
  <2>1. PICK wr \in BOOLEAN, rd \in BOOLEAN, d \in Data : Reset(wr, d, rd)
    BY <1>2 DEF ResetEdge
  <2> QED BY <1>2, <2>1, ResetStep
<1>3. CASE UNCHANGED vars
  BY <1>3, FifoStutter
<1> QED BY <1>1, <1>2, <1>3 DEF Next

\* Head, pointers and the reported occupancy agree at every edge, for every
\* depth: count is the number of words queued (sync_fifo.sv:115-163).
THEOREM FifoSafe == Spec => []FifoInv
<1>1. FifoIInv => FifoInv
  BY QueueIs DEF FifoIInv, FifoInv, CountExact, QueueFacts
<1> QED BY <1>1, FifoStart, FifoStep, PTL DEF Spec

\* The queue implements the bounded first-in first-out channel: no word is
\* lost, repeated or overtaken between the output register, the read registers
\* and the RAM, also when one is written and one taken at the same edge.
THEOREM FifoIsChannel == Spec => IsChannel
<1>1. Init => Chan!Init
  BY FifoStart DEF Chan!Init, Init
<1> QED BY <1>1, FifoStart, FifoStep, PTL DEF Spec, IsChannel

(***************************************************************************)
(* Playback                                                                *)
(***************************************************************************)
Word == {Silence, Tone} \cup {Left(d) : d \in Data} \cup {Right(d) : d \in Data}

I2sState == [reload : BOOLEAN, bit : 0 .. SAMPLE_WIDTH - 1, next : BOOLEAN, lrclk : BOOLEAN,
             word : Word, mode : Modes]

AudioState == [req : Modes, active : Modes, frame_valid : BOOLEAN]

\* lrclk follows next_channel, which alternates: a frame begins with the left
\* channel, except that the very first after a reset has two right ones, and
\* playback cannot be on in it.
Serializer == /\ i2s \in I2sState
              /\ ~i2s.reload => i2s.lrclk = i2s.next
              /\ i2s.reload /\ i2s.lrclk => ~i2s.next
              /\ i2s.reload /\ ~i2s.lrclk /\ ~i2s.next => audio.active = "off"

\* While the left channel is under way, a right half is kept exactly when the
\* left one came from the queue, and it is that of the same word.
Halves ==
  ~i2s.lrclk /\ audio.active = "fifo" =>
    IF i2s.mode = "fifo"
    THEN IF audio.frame_valid THEN i2s.word = Left(taken) ELSE i2s.word = Silence
    ELSE ~audio.frame_valid

\* The program has samples left to write just while it is writing them, and
\* there is room for all.
Filling == /\ guest.fill <= Space
           /\ guest.pc \in {"prime", "refill"} <=> guest.fill > 0

\* The peripheral, and all of it with the program.
AudioIInv == FifoIInv /\ audio \in AudioState /\ Serializer /\ Halves
IInv == PlaybackTypeOK /\ AudioIInv /\ Filling

\* There are samples, and the word on the wires when none is written is one.
LEMMA SampleFacts == AnyData \in Data
BY PlaybackAssumption DEF AnyData

\* An edge of the audio clock on the registers of the mode (audiosys_peripheral.sv).
LEMMA ModeEdge ==
  ASSUME AudioIInv, NEW acc, NEW tone, audio' = AudioNext(acc, tone)
  PROVE  /\ audio' \in AudioState
         /\ audio'.active = (IF SwitchNow(tone) THEN audio.req ELSE audio.active)
         /\ audio'.frame_valid = FrameValidNext
<1>1. audio \in AudioState
  BY DEF AudioIInv
<1>2. out.valid \in BOOLEAN
  BY DEF AudioIInv, FifoIInv, TypeOK
<1>3. Sanitize(acc.value) \in Modes
  BY DEF Sanitize, Modes
<1>4. FrameValidNext \in BOOLEAN
  BY <1>1, <1>2 DEF FrameValidNext, AudioState
<1> DEFINE req == IF acc.reg = "mode" THEN Sanitize(acc.value) ELSE audio.req
           active == IF SwitchNow(tone) THEN audio.req ELSE audio.active
<1>5. req \in Modes /\ active \in Modes
  BY <1>1, <1>3 DEF AudioState
<1>6. audio' = [req |-> req, active |-> active, frame_valid |-> FrameValidNext]
  BY <1>1 DEF AudioNext, AudioState
<1> HIDE DEF req, active
<1>7. audio'.active = active /\ audio'.frame_valid = FrameValidNext
  BY <1>6
<1>8. audio' \in AudioState
  <2>1. [req |-> req, active |-> active, frame_valid |-> FrameValidNext] \in AudioState
    BY <1>4, <1>5, Zenon DEF AudioState
  <2> QED BY <1>6, <2>1, Zenon
<1> QED BY <1>7, <1>8, Zenon DEF active

\* An edge of the audio clock on the serializer (i2s_serializer.sv).
LEMMA SerializerEdge ==
  ASSUME AudioIInv, NEW tone, i2s' = I2sNext(tone)
  PROVE  /\ i2s' \in I2sState
         /\ i2s.reload => /\ ~i2s'.reload /\ i2s'.lrclk = i2s.next /\ i2s'.next = i2s.next
                          /\ i2s'.word = SampleData(tone) /\ i2s'.mode = audio.active
         /\ ~i2s.reload => /\ i2s'.lrclk = i2s.lrclk
                           /\ i2s'.word = i2s.word /\ i2s'.mode = i2s.mode
                           /\ i2s'.next = (IF i2s'.reload THEN ~i2s.next ELSE i2s.next)
<1>1. audio \in AudioState /\ i2s \in I2sState /\ out.data \in Data /\ taken \in Data
  BY DEF AudioIInv, Serializer, FifoIInv, TypeOK
<1>2. SampleData(tone) \in Word
  BY <1>1 DEF SampleData, Word, AudioState, Modes
<1>3. SAMPLE_WIDTH \in Nat /\ SAMPLE_WIDTH >= 1
  BY WidthAssumption
<1>4. CASE i2s.reload
  <2>1. i2s' = [i2s EXCEPT !.reload = FALSE, !.bit = 0, !.lrclk = i2s.next,
                           !.word = SampleData(tone), !.mode = audio.active]
    BY <1>4, Zenon DEF I2sNext
  <2>2. audio.active \in Modes /\ 0 \in 0 .. SAMPLE_WIDTH - 1
    BY <1>1, <1>3 DEF AudioState
  <2> HIDE DEF I2sNext
  <2>3. i2s' \in I2sState
    BY <1>1, <1>2, <2>1, <2>2 DEF I2sState
  <2>4. /\ ~i2s'.reload /\ i2s'.lrclk = i2s.next /\ i2s'.next = i2s.next
        /\ i2s'.word = SampleData(tone) /\ i2s'.mode = audio.active
    BY <1>1, <2>1 DEF I2sState
  <2> QED BY <1>4, <2>3, <2>4
<1>5. CASE ~i2s.reload /\ i2s.bit = SAMPLE_WIDTH - 1
  BY <1>1, <1>3, <1>5 DEF I2sNext, I2sState
<1>6. CASE ~i2s.reload /\ i2s.bit # SAMPLE_WIDTH - 1
  BY <1>1, <1>3, <1>6 DEF I2sNext, I2sState
<1> QED BY <1>4, <1>5, <1>6

\* An edge of the audio clock, whatever access it takes: the queue steps as a
\* channel, the serializer alternates and the halves stay paired.
LEMMA AudioStep ==
  ASSUME AudioIInv, NEW acc, acc.reg = "sample" => acc.value \in Data, AudioEdge(acc)
  PROVE  /\ AudioIInv'
         /\ \E d \in Data : QueueStep(d)
         /\ count' <= count + (IF acc.reg = "sample" THEN 1 ELSE 0)
<1> DEFINE d == IF acc.reg = "sample" THEN acc.value ELSE AnyData
<1>1. d \in Data /\ FifoWrite(acc) \in BOOLEAN /\ FifoRead \in BOOLEAN
  BY SampleFacts DEF FifoWrite, FifoRead
<1>2. Edge(FifoWrite(acc), d, FifoRead)
  BY Zenon DEF AudioEdge
<1>3. PICK tone \in ToneInput : audio' = AudioNext(acc, tone) /\ i2s' = I2sNext(tone)
  BY Zenon DEF AudioEdge
<1> HIDE DEF d
<1>4. FifoIInv' /\ QueueStep(d)
  <2>1. FifoIInv
    BY DEF AudioIInv
  <2> QED BY <1>1, <1>2, <2>1, EdgeStep
<1>5. count' <= count + (IF acc.reg = "sample" THEN 1 ELSE 0)
  <2>1. FifoIInv /\ count \in 0 .. DEPTH
    BY DEF AudioIInv, FifoIInv, TypeOK
  <2>2. count' = (count + IF WrFire(FifoWrite(acc), FifoRead) THEN 1 ELSE 0) - IF RdFire(FifoRead) THEN 1 ELSE 0
    BY <1>1, <1>2, <2>1, Handshake DEF Edge
  <2>3. WrFire(FifoWrite(acc), FifoRead) => acc.reg = "sample"
    BY DEF WrFire, FifoWrite
  <2> QED BY <2>1, <2>2, <2>3
<1>6. /\ audio' \in AudioState
      /\ audio'.active = (IF SwitchNow(tone) THEN audio.req ELSE audio.active)
      /\ audio'.frame_valid = FrameValidNext
  BY <1>3, ModeEdge
<1>7. /\ i2s' \in I2sState
      /\ i2s.reload => /\ ~i2s'.reload /\ i2s'.lrclk = i2s.next /\ i2s'.next = i2s.next
                       /\ i2s'.word = SampleData(tone) /\ i2s'.mode = audio.active
      /\ ~i2s.reload => /\ i2s'.lrclk = i2s.lrclk
                        /\ i2s'.word = i2s.word /\ i2s'.mode = i2s.mode
                        /\ i2s'.next = (IF i2s'.reload THEN ~i2s.next ELSE i2s.next)
  BY <1>3, SerializerEdge
<1>8. /\ i2s \in I2sState /\ audio \in AudioState
      /\ ~i2s.reload => i2s.lrclk = i2s.next
      /\ i2s.reload /\ i2s.lrclk => ~i2s.next
      /\ i2s.reload /\ ~i2s.lrclk /\ ~i2s.next => audio.active = "off"
      /\ Halves
  BY DEF AudioIInv, Serializer
<1>9. ~(i2s.reload /\ i2s.lrclk) => audio'.active = audio.active
  BY <1>6 DEF SwitchNow, FrameBoundary
<1>10. taken' = (IF RdFire(FifoRead) THEN out.data ELSE taken)
  BY <1>2 DEF Edge
<1>11. Serializer'
  <2>1. CASE i2s.reload
    BY <1>7, <1>8, <2>1 DEF Serializer, I2sState
  <2>2. CASE ~i2s.reload
    BY <1>7, <1>8, <2>2 DEF Serializer, I2sState
  <2> QED BY <2>1, <2>2
<1>12. Halves'
  <2> SUFFICES ASSUME ~i2s'.lrclk, audio'.active = "fifo"
               PROVE  IF i2s'.mode = "fifo"
                      THEN IF audio'.frame_valid THEN i2s'.word = Left(taken') ELSE i2s'.word = Silence
                      ELSE ~audio'.frame_valid
    BY DEF Halves, Left, Silence
  <2>1. CASE ~i2s.reload
    <3>1. audio.active = "fifo" /\ ~i2s.lrclk /\ ~FrameBoundary
      BY <1>7, <1>9, <2>1 DEF FrameBoundary
    <3>2. taken' = taken
      BY <1>10, <3>1 DEF RdFire, FifoRead
    <3>3. audio'.frame_valid = audio.frame_valid
      BY <1>6, <1>8, <3>1 DEF FrameValidNext, AudioState
    <3> QED BY <1>7, <1>8, <2>1, <3>1, <3>2, <3>3 DEF Halves
  <2>2. CASE i2s.reload /\ i2s.lrclk
    <3>1. FrameBoundary /\ i2s'.mode = audio.active /\ i2s'.word = SampleData(tone)
      BY <1>7, <2>2 DEF FrameBoundary
    <3>2. CASE audio.active = "fifo"
      <4>1. audio'.frame_valid <=> out.valid
        BY <1>6, <3>1, <3>2 DEF FrameValidNext
      <4>2. SampleData(tone) = IF out.valid THEN Left(out.data) ELSE Silence
        BY <2>2, <3>2 DEF SampleData
      <4>3. out.valid => taken' = out.data
        BY <1>10, <3>1, <3>2 DEF RdFire, FifoRead
      <4> QED BY <3>1, <3>2, <4>1, <4>2, <4>3
    <3>3. CASE audio.active # "fifo"
      BY <1>6, <3>1, <3>3 DEF FrameValidNext
    <3> QED BY <3>2, <3>3
  <2>3. CASE i2s.reload /\ ~i2s.lrclk
    BY <1>7, <1>8, <1>9, <2>3
  <2> QED BY <2>1, <2>2, <2>3
<1> QED BY <1>1, <1>4, <1>5, <1>6, <1>11, <1>12 DEF AudioIInv

\* A reset of the audio side (rst_audio of audiosys_peripheral.sv).
LEMMA AudioResetStep ==
  ASSUME AudioIInv, AudioResetEdge
  PROVE  AudioIInv' /\ ResetEdge /\ queue' = << >> /\ UNCHANGED taken /\ count' = 0
<1>1. AnyData \in Data /\ FALSE \in BOOLEAN /\ FifoRead \in BOOLEAN /\ FifoIInv
  BY SampleFacts DEF FifoRead, AudioIInv
<1>2. Reset(FALSE, AnyData, FifoRead)
  BY DEF AudioResetEdge
<1>3. FifoIInv' /\ queue' = << >> /\ UNCHANGED taken
  BY <1>1, <1>2, ResetStep
<1>4. ResetEdge
  BY <1>1, <1>2, Zenon DEF ResetEdge
<1>5. count' = 0
  BY <1>2 DEF Reset
<1>6. audio' = AudioReset /\ i2s' = I2sReset
  BY DEF AudioResetEdge
<1>7. audio' \in AudioState /\ audio'.active = "off"
  BY <1>6 DEF AudioState, AudioReset, Modes
<1>8. 0 \in 0 .. SAMPLE_WIDTH - 1
  BY WidthAssumption
<1>9. Serializer' /\ Halves'
  BY <1>6, <1>7, <1>8 DEF Serializer, Halves, I2sState, I2sReset, Word, Modes
<1> QED BY <1>3, <1>4, <1>5, <1>7, <1>9 DEF AudioIInv

GuestState == [pc : AudioPcs \cup IcPcs \cup {"loop"}, fill : 0 .. DEPTH, index : Data]

\* What a step of everything is to the queue.
ChannelStep == Chan!Next \/ (ResetEdge /\ queue' = << >>) \/ UNCHANGED <<queue, taken>>

\* The peripheral does not depend on the controller or the program.
LEMMA AudioStutter ==
  AudioIInv /\ UNCHANGED audioVars => AudioIInv' /\ UNCHANGED <<queue, taken>> /\ count' = count
<1> SUFFICES ASSUME AudioIInv, UNCHANGED audioVars
             PROVE  AudioIInv' /\ UNCHANGED <<queue, taken>> /\ count' = count
  OBVIOUS
<1>1. UNCHANGED vars /\ audio' = audio /\ i2s' = i2s /\ taken' = taken /\ count' = count
  BY DEF audioVars, vars
<1>2. FifoIInv' /\ UNCHANGED <<queue, taken>>
  BY <1>1, FifoStutter DEF AudioIInv
<1>3. Serializer' /\ Halves'
  BY <1>1 DEF AudioIInv, Serializer, Halves
<1> QED BY <1>1, <1>2, <1>3 DEF AudioIInv

\* What the theorems say of the peripheral follows from its invariant.
LEMMA AudioFacts ==
  AudioIInv => AudioTypeOK /\ StereoPaired /\ FifoInv /\ count \in 0 .. DEPTH
<1> SUFFICES ASSUME AudioIInv PROVE AudioTypeOK /\ StereoPaired /\ FifoInv /\ count \in 0 .. DEPTH
  OBVIOUS
<1>1. AudioTypeOK
  BY DEF AudioIInv, AudioTypeOK, AudioState, Serializer, I2sState
<1>2. FifoInv /\ count \in 0 .. DEPTH
  BY QueueIs DEF AudioIInv, FifoIInv, FifoInv, CountExact, QueueFacts, TypeOK
<1>3. StereoPaired
  <2> SUFFICES ASSUME i2s.reload, ~i2s.lrclk, audio.active = "fifo"
               PROVE  IF i2s.mode = "fifo"
                      THEN \/ i2s.word = Silence /\ SampleData("starting") = Silence
                           \/ \E d \in Data : i2s.word = Left(d) /\ SampleData("starting") = Right(d)
                      ELSE SampleData("starting") = Silence
    BY DEF StereoPaired
  <2>1. SampleData("starting") = IF audio.frame_valid THEN Right(taken) ELSE Silence
    BY DEF SampleData
  <2>2. taken \in Data
    BY DEF AudioIInv, FifoIInv, TypeOK
  <2>3. CASE i2s.mode = "fifo" /\ audio.frame_valid
    BY <2>1, <2>2, <2>3 DEF AudioIInv, Halves
  <2>4. CASE i2s.mode = "fifo" /\ ~audio.frame_valid
    BY <2>1, <2>4 DEF AudioIInv, Halves
  <2>5. CASE i2s.mode # "fifo"
    BY <2>1, <2>5 DEF AudioIInv, Halves
  <2> QED BY <2>3, <2>4, <2>5
<1> QED BY <1>1, <1>2, <1>3

\* The same after a step.
LEMMA AudioNextFacts == AudioIInv' => AudioTypeOK' /\ (count \in 0 .. DEPTH)'
BY AudioFacts, PTL

\* An edge of sys_clk on the controller and the synchronizer.
LEMMA SysStep ==
  ASSUME IInv, NEW reg, NEW mask \in SUBSET Source, SysEdge(reg, mask)
  PROVE  /\ ic' \in IcState /\ irq' \in [1 .. SYNC_STAGES -> BOOLEAN]
         /\ AudioIInv' /\ UNCHANGED <<queue, taken>> /\ count' = count
<1>1. ic \in IcState /\ irq \in [1 .. SYNC_STAGES -> BOOLEAN]
  BY DEF IInv, PlaybackTypeOK
<1>2. irq' \in [1 .. SYNC_STAGES -> BOOLEAN]
  <2>1. LowWater \in BOOLEAN /\ SYNC_STAGES \in Nat
    BY PlaybackAssumption DEF LowWater
  <2>2. \A i \in 1 .. SYNC_STAGES : i # 1 => irq[i - 1] \in BOOLEAN
    BY <1>1, <2>1
  <2>3. \A i \in 1 .. SYNC_STAGES : (IF i = 1 THEN LowWater ELSE irq[i - 1]) \in BOOLEAN
    BY <2>1, <2>2, Zenon
  <2> QED BY <2>3, Zenon DEF SysEdge
<1>3. ic' \in IcState
  <2>1. \A i \in SUBSET Source : PendingNext(i, reg, mask) \in SUBSET Source
    BY <1>1 DEF PendingNext, IcState
  <2>2. EnableNext(reg, mask) \in SUBSET Source
    BY <1>1 DEF EnableNext, IcState
  <2>3. \A i \in SUBSET Source : IcNext(i, reg, mask) \in IcState
    BY <2>1, <2>2, Zenon DEF IcNext, IcState
  <2>4. (IF irq[SYNC_STAGES] THEN {AUDIO_SOURCE} ELSE {}) \in SUBSET Source
    BY PlaybackAssumption
  <2> QED BY <2>3, <2>4, Zenon DEF SysEdge
<1>4. AudioIInv' /\ UNCHANGED <<queue, taken>> /\ count' = count
  BY AudioStutter DEF SysEdge, IInv
<1> QED BY <1>2, <1>3, <1>4

\* fill_audio_fifo with n samples to write.
LEMMA FillFacts ==
  ASSUME NEW g \in GuestState, NEW pc \in {"prime", "refill"}, NEW n \in 0 .. DEPTH
  PROVE  /\ Fill(g, pc, n) \in GuestState /\ Fill(g, pc, n).fill = n
         /\ Fill(g, pc, n).pc \in {"prime", "refill"} <=> n > 0
<1> DEFINE next == IF n = 0 THEN AfterFill(pc) ELSE pc
<1>1. /\ next \in AudioPcs \cup IcPcs \cup {"loop"}
      /\ next \in {"prime", "refill"} <=> n > 0
  BY DepthPositive DEF AfterFill, AudioPcs, IcPcs
<1>2. Fill(g, pc, n) = [g EXCEPT !.fill = n, !.pc = next]
  BY DEF Fill
<1> HIDE DEF next
<1>3. Fill(g, pc, n) \in GuestState /\ Fill(g, pc, n).fill = n /\ Fill(g, pc, n).pc = next
  BY <1>1, <1>2 DEF GuestState
<1> QED BY <1>1, <1>3

\* The invariant after a step, from its parts.
LEMMA Parts ==
  ASSUME AudioIInv', ic' \in IcState, irq' \in [1 .. SYNC_STAGES -> BOOLEAN], guest' \in GuestState,
         NEW c \in 0 .. DEPTH, NEW f \in 0 .. DEPTH, count' = c, guest'.fill = f, f + c <= DEPTH,
         guest'.pc \in {"prime", "refill"} <=> f > 0
  PROVE  IInv'
<1>1. PlaybackTypeOK'
  BY AudioNextFacts DEF PlaybackTypeOK, GuestState
<1>2. f <= DEPTH - c
  BY DepthPositive
<1>3. guest'.fill <= Space' /\ guest'.fill = f
  BY <1>2 DEF Space
<1>4. Filling'
  BY <1>3 DEF Filling
<1> QED BY <1>1, <1>4 DEF IInv

\* The same of a state.
LEMMA Now ==
  IInv => /\ AudioIInv /\ guest \in GuestState /\ guest.fill + count <= DEPTH /\ count \in 0 .. DEPTH
          /\ guest.pc \in {"prime", "refill"} <=> guest.fill > 0
          /\ ic \in IcState /\ irq \in [1 .. SYNC_STAGES -> BOOLEAN]
<1> SUFFICES ASSUME IInv
             PROVE  /\ AudioIInv /\ guest \in GuestState /\ guest.fill + count <= DEPTH /\ count \in 0 .. DEPTH
                    /\ guest.pc \in {"prime", "refill"} <=> guest.fill > 0
                    /\ ic \in IcState /\ irq \in [1 .. SYNC_STAGES -> BOOLEAN]
  OBVIOUS
<1>1. /\ AudioIInv /\ guest \in GuestState /\ count \in 0 .. DEPTH
      /\ guest.pc \in {"prime", "refill"} <=> guest.fill > 0
      /\ ic \in IcState /\ irq \in [1 .. SYNC_STAGES -> BOOLEAN]
  BY AudioFacts DEF IInv, PlaybackTypeOK, Filling, GuestState
<1>2. guest.fill \in 0 .. DEPTH /\ guest.fill <= DEPTH - count
  BY <1>1 DEF IInv, Filling, Space, GuestState
<1>3. guest.fill + count <= DEPTH
  BY <1>1, <1>2, DepthPositive
<1> QED BY <1>1, <1>3

\* One access of the program to the peripheral (test_pocket_demo.rs): whatever
\* room was read is still there for the samples that are left.
LEMMA GuestAudioStep ==
  ASSUME IInv, GuestAudio
  PROVE  IInv' /\ \E d \in Data : QueueStep(d)
<1>1. /\ AudioIInv /\ guest \in GuestState /\ guest.fill + count <= DEPTH /\ count \in 0 .. DEPTH
      /\ guest.pc \in {"prime", "refill"} <=> guest.fill > 0
      /\ ic \in IcState /\ irq \in [1 .. SYNC_STAGES -> BOOLEAN]
  BY Now
<1>2. guest.pc \in AudioPcs /\ AudioEdge(GuestAudioAccess) /\ ic' = ic /\ irq' = irq
  BY DEF GuestAudio
<1> DEFINE Wrote == IF guest.pc \in {"prime", "refill"} THEN 1 ELSE 0
<1>3. /\ GuestAudioAccess.reg = "sample" => GuestAudioAccess.value \in Data
      /\ GuestAudioAccess.reg = "sample" <=> guest.pc \in {"prime", "refill"}
  <2>1. CASE guest.pc = "mode"
    BY <2>1 DEF GuestAudioAccess, WriteMode
  <2>2. CASE guest.pc \in {"prime_space", "space"}
    BY <2>2 DEF GuestAudioAccess, ReadSpace
  <2>3. CASE guest.pc \in {"prime", "refill"}
    <3>1. GuestAudioAccess = WriteSample(guest.index)
      BY <2>3 DEF GuestAudioAccess
    <3>2. guest.index \in Data
      BY <1>1 DEF GuestState
    <3> QED BY <2>3, <3>1, <3>2 DEF WriteSample
  <2> QED BY <1>2, <2>1, <2>2, <2>3 DEF AudioPcs
<1>4. AudioIInv' /\ (\E d \in Data : QueueStep(d)) /\ count' <= count + Wrote
  <2> DEFINE acc == GuestAudioAccess
  <2>1. (acc.reg = "sample" => acc.value \in Data) /\ AudioEdge(acc)
    BY <1>2, <1>3
  <2> HIDE DEF acc
  <2>2. /\ AudioIInv' /\ (\E d \in Data : QueueStep(d))
        /\ count' <= count + (IF acc.reg = "sample" THEN 1 ELSE 0)
    BY <1>1, <2>1, AudioStep
  <2> QED BY <1>3, <2>2 DEF acc
<1>5. PICK c \in 0 .. DEPTH : count' = c
  BY <1>4, AudioNextFacts
<1>6. c <= count + Wrote
  BY <1>4, <1>5
<1>7. ic' \in IcState /\ irq' \in [1 .. SYNC_STAGES -> BOOLEAN]
  BY <1>1, <1>2
<1>8. \E f \in 0 .. DEPTH : /\ guest' \in GuestState /\ guest'.fill = f /\ f + c <= DEPTH
                            /\ guest'.pc \in {"prime", "refill"} <=> f > 0
  <2>1. CASE guest.pc = "mode"
    <3>1. guest' = [guest EXCEPT !.pc = "prime_space", !.index = 0]
      BY <2>1 DEF GuestAudio
    <3>2. guest.fill = 0 /\ 0 \in Data
      BY <1>1, <2>1, PlaybackAssumption DEF GuestState
    <3>3. guest' \in GuestState /\ guest'.fill = 0 /\ guest'.pc = "prime_space"
      BY <1>1, <3>1, <3>2 DEF GuestState, AudioPcs
    <3>4. 0 \in 0 .. DEPTH /\ 0 + c <= DEPTH /\ (guest'.pc \in {"prime", "refill"} <=> 0 > 0)
      BY <1>5, <3>3, DepthPositive
    <3> QED BY <3>3, <3>4
  <2>2. CASE guest.pc = "prime_space"
    <3> DEFINE n == DEPTH - count
    <3>1. guest' = Fill(guest, "prime", n)
      BY <2>2 DEF GuestAudio, AfterSpace, Space
    <3>2. n \in 0 .. DEPTH /\ n + c <= DEPTH
      BY <1>1, <1>5, <1>6, <2>2, DepthPositive
    <3> HIDE DEF n
    <3>3. /\ guest' \in GuestState /\ guest'.fill = n
          /\ guest'.pc \in {"prime", "refill"} <=> n > 0
      BY <1>1, <3>1, <3>2, FillFacts
    <3> QED BY <3>2, <3>3
  <2>3. CASE guest.pc = "space"
    <3> DEFINE n == Smaller(DEPTH - count, MAX_FILL)
    <3>1. guest' = Fill(guest, "refill", n)
      BY <2>3 DEF GuestAudio, AfterSpace, Space
    <3>2. n \in 0 .. DEPTH /\ n + c <= DEPTH
      BY <1>1, <1>5, <1>6, <2>3, DepthPositive, PlaybackAssumption DEF Smaller
    <3> HIDE DEF n
    <3>3. /\ guest' \in GuestState /\ guest'.fill = n
          /\ guest'.pc \in {"prime", "refill"} <=> n > 0
      BY <1>1, <3>1, <3>2, FillFacts
    <3> QED BY <3>2, <3>3
  <2>4. CASE guest.pc \in {"prime", "refill"}
    <3> DEFINE g == [guest EXCEPT !.index = (@ + 1) % SAMPLES]
               n == guest.fill - 1
    <3>1. guest' = Fill(g, guest.pc, n)
      <4>1. guest' = AfterSample(guest)
        BY <2>4 DEF GuestAudio
      <4>2. AfterSample(guest) = Fill(g, guest.pc, n)
        BY Zenon DEF AfterSample
      <4> QED BY <4>1, <4>2, Zenon
    <3>2. n \in 0 .. DEPTH /\ n + c <= DEPTH
      BY <1>1, <1>5, <1>6, <2>4, DepthPositive DEF GuestState
    <3>3. g \in GuestState
      <4>1. guest.index \in Nat /\ (guest.index + 1) % SAMPLES \in Data
        BY <1>1, PlaybackAssumption DEF GuestState
      <4> QED BY <1>1, <4>1 DEF GuestState
    <3> HIDE DEF g, n
    <3>4. /\ guest' \in GuestState /\ guest'.fill = n
          /\ guest'.pc \in {"prime", "refill"} <=> n > 0
      BY <2>4, <3>1, <3>2, <3>3, FillFacts
    <3> QED BY <3>2, <3>4
  <2> QED BY <1>2, <2>1, <2>2, <2>3, <2>4 DEF AudioPcs
<1>9. PICK f \in 0 .. DEPTH : /\ guest' \in GuestState /\ guest'.fill = f /\ f + c <= DEPTH
                              /\ guest'.pc \in {"prime", "refill"} <=> f > 0
  BY <1>8
<1>10. IInv'
  BY <1>4, <1>5, <1>7, <1>9, Parts
<1> QED BY <1>4, <1>10

\* A step that leaves the program's samples alone and does not add to the queue
\* leaves the room there.
LEMMA SameFill ==
  ASSUME IInv, AudioIInv', ic' \in IcState, irq' \in [1 .. SYNC_STAGES -> BOOLEAN],
         guest' \in GuestState, guest'.fill = guest.fill,
         guest'.pc \in {"prime", "refill"} <=> guest.fill > 0,
         guest.fill = 0 \/ count' <= count
  PROVE  IInv'
<1>1. /\ guest \in GuestState /\ guest.fill + count <= DEPTH /\ count \in 0 .. DEPTH
      /\ guest.pc \in {"prime", "refill"} <=> guest.fill > 0
  BY Now
<1>2. PICK c \in 0 .. DEPTH : count' = c
  BY AudioNextFacts
<1>3. guest.fill \in 0 .. DEPTH
  BY <1>1 DEF GuestState
<1>4. PICK f \in 0 .. DEPTH : f = guest.fill
  BY <1>3
<1>5. f = 0 \/ c <= count
  BY <1>2, <1>4
<1>6. f + c <= DEPTH
  BY <1>1, <1>4, <1>5, DepthPositive
<1> QED BY <1>2, <1>4, <1>6, Parts

\* The program's accesses to the controller (machine_external).
LEMMA GuestSysStep ==
  ASSUME IInv, GuestSys
  PROVE  IInv' /\ UNCHANGED <<queue, taken>>
<1>1. /\ guest \in GuestState /\ guest.pc \in IcPcs
      /\ guest.pc \in {"prime", "refill"} <=> guest.fill > 0
  BY Now DEF GuestSys
<1>2. PICK pc \in {"loop", "space"} : guest' = [guest EXCEPT !.pc = pc]
  <2>1. CASE guest.pc = "enable"
    BY <2>1 DEF GuestSys, GuestIc
  <2>2. CASE guest.pc = "claim"
    BY <2>2 DEF GuestSys, GuestIc, AfterClaim
  <2>3. CASE guest.pc = "complete"
    BY <2>3 DEF GuestSys, GuestIc
  <2> QED BY <1>1, <2>1, <2>2, <2>3 DEF IcPcs
<1>3. \E reg \in IcRegisters, mask \in SUBSET Source : SysEdge(reg, mask)
  <2>1. {} \in SUBSET Source /\ {AUDIO_SOURCE} \in SUBSET Source /\ ic.enable \cup {AUDIO_SOURCE} \in SUBSET Source
    BY Now, PlaybackAssumption DEF IcState
  <2>2. CASE guest.pc = "enable"
    BY <2>1, <2>2 DEF GuestSys, GuestIc, IcRegisters
  <2>3. CASE guest.pc = "claim"
    BY <2>1, <2>3 DEF GuestSys, GuestIc, IcRegisters
  <2>4. CASE guest.pc = "complete"
    BY <2>1, <2>4 DEF GuestSys, GuestIc, IcRegisters
  <2> QED BY <1>1, <2>2, <2>3, <2>4 DEF IcPcs
<1>4. PICK reg \in IcRegisters, mask \in SUBSET Source : SysEdge(reg, mask)
  BY <1>3
<1>5. /\ ic' \in IcState /\ irq' \in [1 .. SYNC_STAGES -> BOOLEAN]
      /\ AudioIInv' /\ UNCHANGED <<queue, taken>> /\ count' = count
  BY <1>4, SysStep
<1>6. guest.pc \notin {"prime", "refill"} /\ guest.fill \in 0 .. DEPTH
  BY <1>1 DEF IcPcs, GuestState
<1>7. guest.fill = 0
  BY <1>1, <1>6, DepthPositive
<1>8. guest' \in GuestState /\ guest'.fill = guest.fill /\ guest'.pc \in {"loop", "space"}
  BY <1>1, <1>2 DEF GuestState, AudioPcs
<1>9. guest'.pc \in {"prime", "refill"} <=> guest.fill > 0
  BY <1>7, <1>8
<1> QED BY <1>5, <1>7, <1>8, <1>9, SameFill

\* The core takes the interrupt.
LEMMA InterruptStep ==
  ASSUME IInv, Interrupt
  PROVE  IInv' /\ UNCHANGED <<queue, taken>>
<1>1. /\ AudioIInv /\ guest \in GuestState /\ guest.pc = "loop" /\ guest' = [guest EXCEPT !.pc = "claim"]
      /\ guest.pc \in {"prime", "refill"} <=> guest.fill > 0
      /\ ic' \in IcState /\ irq' \in [1 .. SYNC_STAGES -> BOOLEAN]
      /\ UNCHANGED audioVars
  BY Now DEF Interrupt
<1>2. AudioIInv' /\ UNCHANGED <<queue, taken>> /\ count' = count
  BY <1>1, AudioStutter
<1>3. guest' \in GuestState /\ guest'.fill = guest.fill /\ guest'.pc = "claim" /\ guest.fill \in 0 .. DEPTH
  BY <1>1 DEF GuestState, IcPcs
<1>4. guest.fill = 0
  BY <1>1, <1>3, DepthPositive
<1>5. guest'.pc \in {"prime", "refill"} <=> guest.fill > 0
  BY <1>3, <1>4
<1> QED BY <1>1, <1>2, <1>3, <1>4, <1>5, SameFill

\* Edges of the audio clock without the program: nothing, or a mode written by
\* the host.
LEMMA HostAudioStep ==
  ASSUME IInv, NEW acc, acc.reg # "sample", AudioEdge(acc), UNCHANGED <<ic, irq, guest>>
  PROVE  IInv' /\ \E d \in Data : QueueStep(d)
<1>1. /\ AudioIInv /\ guest \in GuestState /\ count \in 0 .. DEPTH
      /\ guest.pc \in {"prime", "refill"} <=> guest.fill > 0
      /\ ic' \in IcState /\ irq' \in [1 .. SYNC_STAGES -> BOOLEAN] /\ guest' = guest
  BY Now
<1>2. /\ AudioIInv' /\ (\E d \in Data : QueueStep(d))
      /\ count' <= count + 0
  BY <1>1, AudioStep
<1>3. PICK c \in 0 .. DEPTH : count' = c
  BY <1>2, AudioNextFacts
<1>4. c <= count
  BY <1>1, <1>2, <1>3
<1> QED BY <1>1, <1>2, <1>3, <1>4, SameFill

\* The host fills the queue itself before the program runs.
LEMMA HostSampleStep ==
  ASSUME IInv, HostSample
  PROVE  IInv' /\ \E d \in Data : QueueStep(d)
<1>1. /\ AudioIInv /\ guest \in GuestState /\ guest.index \in Data /\ guest.pc = "mode"
      /\ guest.pc \in {"prime", "refill"} <=> guest.fill > 0
      /\ ic' \in IcState /\ irq' \in [1 .. SYNC_STAGES -> BOOLEAN]
      /\ guest' = [guest EXCEPT !.index = (@ + 1) % SAMPLES]
  BY Now DEF HostSample, GuestState
<1> DEFINE acc == WriteSample(guest.index)
<1>2. (acc.reg = "sample" => acc.value \in Data) /\ AudioEdge(acc)
  BY <1>1 DEF HostSample, WriteSample
<1> HIDE DEF acc
<1>3. AudioIInv' /\ (\E d \in Data : QueueStep(d))
  BY <1>1, <1>2, AudioStep
<1>4. guest.index \in Nat /\ (guest.index + 1) % SAMPLES \in Data
  BY <1>1, PlaybackAssumption
<1>5. guest' \in GuestState /\ guest'.fill = guest.fill /\ guest'.pc = "mode" /\ guest.fill \in 0 .. DEPTH
  BY <1>1, <1>4 DEF GuestState
<1>6. guest.fill = 0
  BY <1>1, <1>5, DepthPositive
<1>7. guest'.pc \in {"prime", "refill"} <=> guest.fill > 0
  BY <1>5, <1>6
<1> QED BY <1>1, <1>3, <1>5, <1>6, <1>7, SameFill

\* A reset of the system.
LEMMA SystemResetStep ==
  ASSUME IInv, SystemReset
  PROVE  IInv' /\ ResetEdge /\ queue' = << >>
<1>1. AudioIInv' /\ ResetEdge /\ queue' = << >> /\ count' = 0
  BY AudioResetStep DEF SystemReset, IInv
<1>2. guest' = GuestReset /\ ic' = IcReset /\ irq' = [i \in 1 .. SYNC_STAGES |-> FALSE]
  BY DEF SystemReset
<1>3. /\ guest' \in GuestState /\ guest'.fill = 0 /\ guest'.pc = "mode"
      /\ 0 \in 0 .. DEPTH /\ 0 + 0 <= DEPTH
  BY <1>2, PlaybackAssumption, DepthPositive DEF GuestReset, GuestState, AudioPcs
<1>4. ic' \in IcState /\ irq' \in [1 .. SYNC_STAGES -> BOOLEAN]
  BY <1>2 DEF IcReset, IcState
<1>5. guest'.pc \in {"prime", "refill"} <=> 0 > 0
  BY <1>3
<1> QED BY <1>1, <1>3, <1>4, <1>5, Parts

\* The invariant holds from the start.
LEMMA PlaybackStart == PlaybackInit => IInv /\ Init
<1> SUFFICES ASSUME PlaybackInit PROVE IInv /\ Init
  OBVIOUS
<1>1. /\ Init /\ audio = AudioReset /\ i2s = I2sReset /\ guest = GuestReset /\ ic = IcReset
      /\ irq = [i \in 1 .. SYNC_STAGES |-> FALSE]
  BY DEF PlaybackInit, AudioInit
<1>2. FifoIInv /\ count = 0
  BY <1>1, FifoStart DEF Init
<1>3. 0 \in 0 .. SAMPLE_WIDTH - 1
  BY WidthAssumption
<1>4. audio \in AudioState /\ Serializer /\ Halves
  BY <1>1, <1>3 DEF AudioState, AudioReset, Modes, Serializer, Halves, I2sState, I2sReset, Word
<1>5. AudioIInv
  BY <1>2, <1>4 DEF AudioIInv
<1>6. ic \in IcState /\ irq \in [1 .. SYNC_STAGES -> BOOLEAN]
  BY <1>1 DEF IcReset, IcState
<1>7. guest \in GuestState /\ guest.fill = 0 /\ guest.pc = "mode"
  BY <1>1, PlaybackAssumption, DepthPositive DEF GuestReset, GuestState, AudioPcs
<1>8. PlaybackTypeOK
  BY <1>5, <1>6, <1>7, AudioFacts DEF PlaybackTypeOK, GuestState
<1>9. Filling
  BY <1>2, <1>7, DepthPositive DEF Filling, Space
<1> QED BY <1>1, <1>5, <1>8, <1>9 DEF IInv

\* Every step of playback keeps the invariant, and is to the queue a step of
\* the channel or a reset.
LEMMA PlaybackStep ==
  IInv /\ [PlaybackNext]_vars2 =>
    IInv' /\ [Chan!Next \/ (ResetEdge /\ queue' = << >>)]_<<queue, taken>>
<1> SUFFICES ASSUME IInv, [PlaybackNext]_vars2
             PROVE  IInv' /\ ChannelStep
  BY DEF ChannelStep
<1>1. ASSUME NEW d \in Data, QueueStep(d) PROVE ChannelStep
  BY <1>1, Zenon DEF QueueStep, ChannelStep, Chan!Next
<1>2. CASE AudioTick
  <2>1. Quiet.reg # "sample"
    BY DEF Quiet
  <2>2. IInv' /\ \E d \in Data : QueueStep(d)
    BY <1>2, <2>1, HostAudioStep DEF AudioTick
  <2> QED BY <1>1, <2>2
<1>3. CASE SysTick
  <2>1. /\ AudioIInv /\ guest \in GuestState /\ guest' = guest
        /\ guest.pc \in {"prime", "refill"} <=> guest.fill > 0
    BY <1>3, Now DEF SysTick
  <2>2. /\ ic' \in IcState /\ irq' \in [1 .. SYNC_STAGES -> BOOLEAN]
        /\ AudioIInv' /\ UNCHANGED <<queue, taken>> /\ count' = count /\ count \in 0 .. DEPTH
    <3>1. {} \in SUBSET Source
      OBVIOUS
    <3> QED BY <1>3, <3>1, SysStep, Now DEF SysTick
  <2>3. IInv'
    BY <2>1, <2>2, SameFill
  <2> QED BY <2>2, <2>3 DEF ChannelStep
<1>4. CASE GuestAudio
  BY <1>1, <1>4, GuestAudioStep
<1>5. CASE GuestSys
  BY <1>5, GuestSysStep DEF ChannelStep
<1>6. CASE Interrupt
  BY <1>6, InterruptStep DEF ChannelStep
<1>7. CASE HostMode
  <2>1. PICK m \in Modes \cup {"reserved"} : AudioEdge(WriteMode(m)) /\ UNCHANGED <<ic, irq, guest>>
    BY <1>7 DEF HostMode
  <2>2. WriteMode(m).reg # "sample"
    BY DEF WriteMode
  <2>3. IInv' /\ \E d \in Data : QueueStep(d)
    BY <2>1, <2>2, HostAudioStep
  <2> QED BY <1>1, <2>3
<1>8. CASE HostSample
  BY <1>1, <1>8, HostSampleStep
<1>9. CASE HostPending
  <2>1. PICK reg \in {"pending_set", "pending_clear"}, mask \in SUBSET Source \ {{}} :
           SysEdge(reg, mask) /\ UNCHANGED guest
    BY <1>9, Zenon DEF HostPending
  <2>2. /\ AudioIInv /\ guest \in GuestState /\ guest' = guest
        /\ guest.pc \in {"prime", "refill"} <=> guest.fill > 0
    BY <2>1, Now
  <2>3. /\ ic' \in IcState /\ irq' \in [1 .. SYNC_STAGES -> BOOLEAN]
        /\ AudioIInv' /\ UNCHANGED <<queue, taken>> /\ count' = count /\ count \in 0 .. DEPTH
    BY <2>1, SysStep, Now
  <2>4. IInv'
    BY <2>2, <2>3, SameFill
  <2> QED BY <2>3, <2>4 DEF ChannelStep
<1>10. CASE SystemReset
  BY <1>10, SystemResetStep DEF ChannelStep
<1>11. CASE UNCHANGED vars2
  <2>1. AudioIInv /\ PlaybackTypeOK /\ Filling /\ UNCHANGED audioVars
        /\ ic' = ic /\ irq' = irq /\ guest' = guest
    BY <1>11 DEF IInv, vars2
  <2>2. AudioIInv' /\ UNCHANGED <<queue, taken>> /\ count' = count
    BY <2>1, AudioStutter
  <2>3. PlaybackTypeOK' /\ Filling'
    BY <2>1, <2>2, AudioNextFacts DEF PlaybackTypeOK, Filling, Space
  <2> QED BY <2>2, <2>3 DEF IInv, ChannelStep
<1> QED BY <1>2, <1>3, <1>4, <1>5, <1>6, <1>7, <1>8, <1>9, <1>10, <1>11 DEF PlaybackNext

\* What the invariant says of playback.
LEMMA PlaybackFacts == IInv => PlaybackInv /\ FifoInv
BY AudioFacts DEF IInv, PlaybackInv, AudioIInv, Filling, SpaceHonest

\* Whatever the host does to mode, queue and interrupts, and for every depth and
\* word width: the right channel is the other half of the left one, and the
\* room the program read is there for all it has left to write.
THEOREM PlaybackSafe == PlaybackSpec => []PlaybackInv
BY PlaybackStart, PlaybackStep, PlaybackFacts, PTL DEF PlaybackSpec

\* The occupancy of the queue that FIFO_SPACE and the low-water interrupt go by
\* is exact during playback (sync_fifo.sv:115-163).
THEOREM PlaybackFifoSafe == PlaybackSpec => []FifoInv
BY PlaybackStart, PlaybackStep, PlaybackFacts, PTL DEF PlaybackSpec

\* Inside the peripheral, too, the queue is a first-in first-out channel:
\* samples are played once and in the order they were written, across both
\* clocks, and only a reset drops any.
THEOREM PlaybackIsChannel == PlaybackSpec => IsChannel
<1>1. Init => Chan!Init
  BY FifoStart DEF Chan!Init, Init
<1> QED BY <1>1, PlaybackStart, PlaybackStep, PTL DEF PlaybackSpec, IsChannel
=============================================================================
