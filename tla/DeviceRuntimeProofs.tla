------------------------- MODULE DeviceRuntimeProofs -------------------------
(***************************************************************************)
(* The runtime and the target share one link. However the threads, the     *)
(* link and the program interleave, whatever times out and whatever an     *)
(* earlier session has left, the target is handed a response only when its *)
(* CPU waits for one, and a packet that arrives finds its buffer free; as  *)
(* long as nothing fails, the client is given the response to its own      *)
(* request: for every set of commands and regions and any numbers of       *)
(* commands, faults and accesses.                                          *)
(***************************************************************************)
EXTENDS DeviceRuntime, TLAPS

(***************************************************************************)
(* The channels, as far as the kinds of their packets go.                  *)
(***************************************************************************)
IsSeq(s) == Len(s) \in Nat /\ s = [i \in 1 .. Len(s) |-> s[i]]

Has(s, type) == \E i \in 1 .. Len(s) : s[i].type = type
AtMostOne(s, type) == \A i, j \in 1 .. Len(s) : s[i].type = type /\ s[j].type = type => i = j

\* What is in a channel (std::sync::mpsc, or the bytes of the port).
LEMMA SeqOf ==
  ASSUME NEW s, IsSeq(s)
  PROVE  s \in Seq({s[i] : i \in 1 .. Len(s)})
BY DEF IsSeq

LEMMA SeqIs ==
  ASSUME NEW S, NEW s \in Seq(S)
  PROVE  IsSeq(s)
BY DEF IsSeq

\* Nothing is in an empty channel.
LEMMA EmptySeq == /\ IsSeq(<< >>) /\ Len(<< >>) = 0
                  /\ \A type : ~Has(<< >>, type) /\ AtMostOne(<< >>, type)
BY DEF IsSeq, Has, AtMostOne

\* A packet put at the end.
LEMMA AppendSeq ==
  ASSUME NEW s, IsSeq(s), NEW x
  PROVE  /\ IsSeq(Append(s, x)) /\ Len(Append(s, x)) = Len(s) + 1
         /\ \A i \in 1 .. Len(s) : Append(s, x)[i] = s[i]
         /\ Append(s, x)[Len(s) + 1] = x
<1>1. PICK S : s \in Seq(S) /\ x \in S
  <2>1. s \in Seq({s[i] : i \in 1 .. Len(s)} \cup {x})
    BY DEF IsSeq
  <2> QED BY <2>1
<1>2. Append(s, x) \in Seq(S)
  BY <1>1
<1>3. IsSeq(Append(s, x))
  BY <1>2, SeqIs
<1> QED BY <1>1, <1>2, <1>3

\* The first packet taken off.
LEMMA TailSeq ==
  ASSUME NEW s, IsSeq(s), s # << >>
  PROVE  /\ IsSeq(Tail(s)) /\ Len(s) >= 1 /\ Len(Tail(s)) = Len(s) - 1 /\ Head(s) = s[1]
         /\ \A i \in 1 .. Len(s) - 1 : Tail(s)[i] = s[i + 1]
<1>1. PICK S : s \in Seq(S)
  BY SeqOf
<1>2. Tail(s) \in Seq(S)
  BY <1>1
<1>3. IsSeq(Tail(s))
  BY <1>2, SeqIs
<1> QED BY <1>1, <1>2, <1>3

\* Two channels, one after the other.
LEMMA ConcatSeq ==
  ASSUME NEW s, IsSeq(s), NEW t, IsSeq(t)
  PROVE  /\ IsSeq(s \o t) /\ Len(s \o t) = Len(s) + Len(t)
         /\ \A i \in 1 .. Len(s) : (s \o t)[i] = s[i]
         /\ \A i \in 1 .. Len(t) : (s \o t)[Len(s) + i] = t[i]
<1>1. PICK S : s \in Seq(S) /\ t \in Seq(S)
  <2>1. /\ s \in Seq({s[i] : i \in 1 .. Len(s)} \cup {t[i] : i \in 1 .. Len(t)})
        /\ t \in Seq({s[i] : i \in 1 .. Len(s)} \cup {t[i] : i \in 1 .. Len(t)})
    BY DEF IsSeq
  <2> QED BY <2>1
<1>2. s \o t \in Seq(S)
  BY <1>1
<1>3. IsSeq(s \o t)
  BY <1>2, SeqIs
<1> QED BY <1>1, <1>2, <1>3

\* A part of a channel.
LEMMA SubSeqSeq ==
  ASSUME NEW s, IsSeq(s), NEW m \in Nat, NEW n \in Nat, 1 <= m, m <= n + 1, n <= Len(s)
  PROVE  /\ IsSeq(SubSeq(s, m, n)) /\ Len(SubSeq(s, m, n)) = n + 1 - m
         /\ \A i \in 1 .. n + 1 - m : SubSeq(s, m, n)[i] = s[m + i - 1]
<1>1. PICK S : s \in Seq(S)
  BY SeqOf
<1>2. SubSeq(s, m, n) \in Seq(S)
  BY <1>1
<1>3. IsSeq(SubSeq(s, m, n))
  BY <1>2, SeqIs
<1> QED BY <1>1, <1>2, <1>3

\* What a channel holds.
Elems(s) == {s[i] : i \in 1 .. Len(s)}

\* What is in a channel after a step, whatever its place.
LEMMA AppendElems ==
  ASSUME NEW s, IsSeq(s), NEW x
  PROVE  IsSeq(Append(s, x)) /\ Elems(Append(s, x)) = Elems(s) \cup {x}
<1>1. PICK u : u = Append(s, x)
  OBVIOUS
<1>2. /\ IsSeq(u) /\ Len(u) = Len(s) + 1 /\ Len(s) \in Nat
      /\ \A i \in 1 .. Len(s) : u[i] = s[i]
      /\ u[Len(s) + 1] = x
  BY <1>1, AppendSeq DEF IsSeq
<1>3. \A i \in 1 .. Len(u) : (i \in 1 .. Len(s) /\ u[i] = s[i]) \/ u[i] = x
  BY <1>2
<1>4. \A i \in 1 .. Len(s) : i \in 1 .. Len(u) /\ u[i] = s[i]
  BY <1>2
<1>5. Len(s) + 1 \in 1 .. Len(u)
  BY <1>2
<1>6. Elems(u) = Elems(s) \cup {x}
  BY <1>2, <1>3, <1>4, <1>5 DEF Elems
<1> QED BY <1>1, <1>2, <1>6

LEMMA TailElems ==
  ASSUME NEW s, IsSeq(s), s # << >>
  PROVE  IsSeq(Tail(s)) /\ Elems(s) = Elems(Tail(s)) \cup {Head(s)}
<1>1. PICK u : u = Tail(s)
  OBVIOUS
<1>2. /\ IsSeq(u) /\ Len(s) >= 1 /\ Len(s) \in Nat /\ Len(u) = Len(s) - 1 /\ Head(s) = s[1]
      /\ \A i \in 1 .. Len(s) - 1 : u[i] = s[i + 1]
  BY <1>1, TailSeq DEF IsSeq
<1>3. \A i \in 1 .. Len(u) : i + 1 \in 1 .. Len(s) /\ u[i] = s[i + 1]
  BY <1>2
<1>4. \A i \in 1 .. Len(s) : i # 1 => i - 1 \in 1 .. Len(u) /\ u[i - 1] = s[i]
  BY <1>2
<1>5. 1 \in 1 .. Len(s)
  BY <1>2
<1>6. \A i \in 1 .. Len(s) : s[i] \in Elems(u) \cup {Head(s)}
  BY <1>2, <1>4 DEF Elems
<1>7. \A i \in 1 .. Len(u) : u[i] \in Elems(s)
  BY <1>3 DEF Elems
<1>8. Head(s) \in Elems(s)
  BY <1>2, <1>5 DEF Elems
<1>9. Elems(s) = Elems(u) \cup {Head(s)}
  BY <1>6, <1>7, <1>8 DEF Elems
<1> QED BY <1>1, <1>2, <1>9

LEMMA ConcatElems ==
  ASSUME NEW s, IsSeq(s), NEW t, IsSeq(t)
  PROVE  IsSeq(s \o t) /\ Elems(s \o t) = Elems(s) \cup Elems(t)
<1>1. PICK u : u = s \o t
  OBVIOUS
<1>2. /\ IsSeq(u) /\ Len(u) = Len(s) + Len(t) /\ Len(s) \in Nat /\ Len(t) \in Nat
      /\ \A i \in 1 .. Len(s) : u[i] = s[i]
      /\ \A i \in 1 .. Len(t) : u[Len(s) + i] = t[i]
  <2>1. Len(s) \in Nat /\ Len(t) \in Nat
    BY DEF IsSeq
  <2> QED BY <1>1, <2>1, ConcatSeq
<1>3. ASSUME NEW i \in 1 .. Len(u), i \notin 1 .. Len(s) PROVE u[i] \in Elems(t)
  <2>1. i - Len(s) \in 1 .. Len(t) /\ Len(s) + (i - Len(s)) = i
    BY <1>2, <1>3
  <2>2. u[i] = t[i - Len(s)]
    BY <1>2, <2>1
  <2> QED BY <2>1, <2>2 DEF Elems
<1>4. \A i \in 1 .. Len(u) : u[i] \in Elems(s) \cup Elems(t)
  BY <1>2, <1>3 DEF Elems
<1>5. \A i \in 1 .. Len(s) : i \in 1 .. Len(u) /\ s[i] = u[i]
  BY <1>2
<1>6. \A i \in 1 .. Len(t) : Len(s) + i \in 1 .. Len(u) /\ t[i] = u[Len(s) + i]
  BY <1>2
<1>7. Elems(s) \subseteq Elems(u) /\ Elems(t) \subseteq Elems(u)
  BY <1>5, <1>6 DEF Elems
<1>8. Elems(u) \subseteq Elems(s) \cup Elems(t)
  BY <1>4 DEF Elems
<1> QED BY <1>1, <1>2, <1>7, <1>8

LEMMA SplitElems ==
  ASSUME NEW s, IsSeq(s), NEW n \in 0 .. Len(s)
  PROVE  /\ IsSeq(SubSeq(s, 1, n)) /\ IsSeq(SubSeq(s, n + 1, Len(s)))
         /\ Elems(s) = Elems(SubSeq(s, 1, n)) \cup Elems(SubSeq(s, n + 1, Len(s)))
<1>1. PICK a, b : a = SubSeq(s, 1, n) /\ b = SubSeq(s, n + 1, Len(s))
  OBVIOUS
<1>2. /\ Len(s) \in Nat /\ n \in Nat /\ n <= Len(s) /\ 1 \in Nat /\ 1 <= 1 /\ 1 <= n + 1
      /\ n + 1 \in Nat /\ n + 1 <= Len(s) + 1
  BY DEF IsSeq
<1>3. IsSeq(a) /\ Len(a) = n + 1 - 1 /\ \A i \in 1 .. n + 1 - 1 : a[i] = s[1 + i - 1]
  BY <1>1, <1>2, SubSeqSeq
<1>4. /\ IsSeq(b) /\ Len(b) = Len(s) + 1 - (n + 1)
      /\ \A i \in 1 .. Len(s) + 1 - (n + 1) : b[i] = s[n + 1 + i - 1]
  BY <1>1, <1>2, SubSeqSeq
<1>5. \A i \in 1 .. Len(a) : 1 + i - 1 \in 1 .. Len(s) /\ a[i] = s[1 + i - 1]
  BY <1>2, <1>3
<1>6. \A i \in 1 .. Len(b) : n + 1 + i - 1 \in 1 .. Len(s) /\ b[i] = s[n + 1 + i - 1]
  BY <1>2, <1>4
<1>7. Elems(a) \subseteq Elems(s) /\ Elems(b) \subseteq Elems(s)
  <2>1. \A i \in 1 .. Len(a) : a[i] \in Elems(s)
    BY <1>5 DEF Elems
  <2>2. \A i \in 1 .. Len(b) : b[i] \in Elems(s)
    BY <1>6 DEF Elems
  <2> QED BY <2>1, <2>2 DEF Elems
<1>8. ASSUME NEW i \in 1 .. Len(s) PROVE s[i] \in Elems(a) \cup Elems(b)
  <2>1. CASE i <= n
    <3>1. i \in 1 .. n + 1 - 1 /\ i \in 1 .. Len(a) /\ 1 + i - 1 = i
      BY <1>2, <1>3, <2>1
    <3>2. a[i] = s[i]
      BY <1>3, <3>1
    <3> QED BY <3>1, <3>2 DEF Elems
  <2>2. CASE i > n
    <3>1. i - n \in 1 .. Len(s) + 1 - (n + 1) /\ i - n \in 1 .. Len(b) /\ n + 1 + (i - n) - 1 = i
      BY <1>2, <1>4, <2>2
    <3>2. b[i - n] = s[i]
      BY <1>4, <3>1
    <3> QED BY <3>1, <3>2 DEF Elems
  <2> QED BY <1>2, <2>1, <2>2
<1>9. Elems(s) \subseteq Elems(a) \cup Elems(b)
  BY <1>8 DEF Elems
<1> QED BY <1>1, <1>3, <1>4, <1>7, <1>9

LEMMA EmptyElems == Elems(<< >>) = {}
BY DEF Elems

LEMMA HasElems ==
  ASSUME NEW s, NEW type
  PROVE  Has(s, type) <=> \E x \in Elems(s) : x.type = type
BY DEF Has, Elems

\* A packet at the end: what kinds there are now.
LEMMA AppendHas ==
  ASSUME NEW s, IsSeq(s), NEW x, NEW type
  PROVE  /\ Has(Append(s, x), type) <=> Has(s, type) \/ x.type = type
         /\ AtMostOne(s, type) /\ (x.type = type => ~Has(s, type)) => AtMostOne(Append(s, x), type)
<1>1. /\ IsSeq(Append(s, x)) /\ Len(Append(s, x)) = Len(s) + 1 /\ Len(s) \in Nat
      /\ \A i \in 1 .. Len(s) : Append(s, x)[i] = s[i]
      /\ Append(s, x)[Len(s) + 1] = x
  BY AppendSeq DEF IsSeq
<1>2. PICK u : u = Append(s, x)
  OBVIOUS
<1>3. \A i \in 1 .. Len(u) : \/ i \in 1 .. Len(s) /\ u[i] = s[i]
                             \/ i = Len(s) + 1 /\ u[i] = x
  BY <1>1, <1>2
<1>4. \A i \in 1 .. Len(s) : i \in 1 .. Len(u) /\ u[i] = s[i]
  BY <1>1, <1>2
<1>5. Len(s) + 1 \in 1 .. Len(u) /\ u[Len(s) + 1] = x
  BY <1>1, <1>2
<1>6. Has(u, type) <=> Has(s, type) \/ x.type = type
  BY <1>2, AppendElems, HasElems
<1>7. ASSUME AtMostOne(s, type), x.type = type => ~Has(s, type)
      PROVE  AtMostOne(u, type)
  BY <1>3, <1>7 DEF Has, AtMostOne
<1> QED BY <1>2, <1>6, <1>7

\* The first packet is off.
LEMMA TailHas ==
  ASSUME NEW s, IsSeq(s), s # << >>, NEW type
  PROVE  /\ Has(s, type) <=> Has(Tail(s), type) \/ Head(s).type = type
         /\ AtMostOne(s, type) => /\ AtMostOne(Tail(s), type)
                                  /\ Head(s).type = type => ~Has(Tail(s), type)
<1>1. /\ IsSeq(Tail(s)) /\ Len(s) >= 1 /\ Len(Tail(s)) = Len(s) - 1 /\ Head(s) = s[1] /\ Len(s) \in Nat
      /\ \A i \in 1 .. Len(s) - 1 : Tail(s)[i] = s[i + 1]
  BY TailSeq DEF IsSeq
<1>2. PICK u : u = Tail(s)
  OBVIOUS
<1>3. \A i \in 1 .. Len(u) : i + 1 \in 1 .. Len(s) /\ i + 1 # 1 /\ u[i] = s[i + 1]
  BY <1>1, <1>2
<1>4. \A i \in 1 .. Len(s) : i # 1 => i - 1 \in 1 .. Len(u) /\ u[i - 1] = s[i]
  BY <1>1, <1>2
<1>5. 1 \in 1 .. Len(s) /\ s[1] = Head(s)
  BY <1>1
<1>6. Has(s, type) <=> Has(u, type) \/ Head(s).type = type
  BY <1>2, TailElems, HasElems
<1>7. ASSUME AtMostOne(s, type)
      PROVE  AtMostOne(u, type) /\ (Head(s).type = type => ~Has(u, type))
  <2>1. \A i, j \in 1 .. Len(u) : u[i].type = type /\ u[j].type = type => i + 1 = j + 1
    BY <1>3, <1>7 DEF AtMostOne
  <2>2. AtMostOne(u, type)
    BY <2>1, <1>1, <1>2 DEF AtMostOne
  <2>3. Head(s).type = type => ~Has(u, type)
    BY <1>3, <1>5, <1>7 DEF Has, AtMostOne
  <2> QED BY <2>2, <2>3
<1> QED BY <1>2, <1>6, <1>7

\* One channel after another.
LEMMA ConcatHas ==
  ASSUME NEW s, IsSeq(s), NEW t, IsSeq(t), NEW type
  PROVE  /\ Has(s \o t, type) <=> Has(s, type) \/ Has(t, type)
         /\ AtMostOne(s, type) /\ AtMostOne(t, type) /\ ~(Has(s, type) /\ Has(t, type))
              => AtMostOne(s \o t, type)
<1>1. /\ Len(s \o t) = Len(s) + Len(t) /\ Len(s) \in Nat /\ Len(t) \in Nat
      /\ \A i \in 1 .. Len(s) : (s \o t)[i] = s[i]
      /\ \A i \in 1 .. Len(t) : (s \o t)[Len(s) + i] = t[i]
  BY ConcatSeq DEF IsSeq
<1>2. PICK u : u = s \o t
  OBVIOUS
<1>3. \A i \in 1 .. Len(u) : \/ i \in 1 .. Len(s) /\ u[i] = s[i]
                             \/ i - Len(s) \in 1 .. Len(t) /\ u[i] = t[i - Len(s)]
  <2>1. SUFFICES ASSUME NEW i \in 1 .. Len(u), i \notin 1 .. Len(s)
                 PROVE  i - Len(s) \in 1 .. Len(t) /\ u[i] = t[i - Len(s)]
    BY <1>1, <1>2
  <2>2. i - Len(s) \in 1 .. Len(t) /\ Len(s) + (i - Len(s)) = i
    BY <1>1, <1>2, <2>1
  <2> QED BY <1>1, <1>2, <2>2
<1>4. /\ \A i \in 1 .. Len(s) : i \in 1 .. Len(u) /\ u[i] = s[i]
      /\ \A i \in 1 .. Len(t) : Len(s) + i \in 1 .. Len(u) /\ u[Len(s) + i] = t[i]
  BY <1>1, <1>2
<1>5. Has(u, type) <=> Has(s, type) \/ Has(t, type)
  BY <1>2, ConcatElems, HasElems
<1>6. ASSUME AtMostOne(s, type), AtMostOne(t, type), ~(Has(s, type) /\ Has(t, type))
      PROVE  AtMostOne(u, type)
  <2>1. SUFFICES ASSUME NEW i \in 1 .. Len(u), NEW j \in 1 .. Len(u), u[i].type = type, u[j].type = type
                 PROVE  i = j
    BY DEF AtMostOne
  <2>2. CASE i \in 1 .. Len(s) /\ u[i] = s[i]
    BY <1>3, <1>6, <2>1, <2>2 DEF AtMostOne, Has
  <2>3. CASE i - Len(s) \in 1 .. Len(t) /\ u[i] = t[i - Len(s)]
    <3>1. j - Len(s) \in 1 .. Len(t) /\ u[j] = t[j - Len(s)]
      BY <1>3, <1>6, <2>1, <2>3 DEF Has
    <3>2. i - Len(s) = j - Len(s)
      BY <1>6, <2>1, <2>3, <3>1 DEF AtMostOne
    <3> QED BY <1>1, <1>2, <3>2
  <2> QED BY <1>3, <2>1, <2>2, <2>3
<1> QED BY <1>2, <1>5, <1>6

\* A channel parted in two: what the port has taken and what it has not.
LEMMA SplitHas ==
  ASSUME NEW s, IsSeq(s), NEW n \in 0 .. Len(s), NEW type
  PROVE  LET a == SubSeq(s, 1, n)
             b == SubSeq(s, n + 1, Len(s))
         IN  /\ Has(s, type) <=> Has(a, type) \/ Has(b, type)
             /\ AtMostOne(s, type) => /\ AtMostOne(a, type) /\ AtMostOne(b, type)
                                      /\ ~(Has(a, type) /\ Has(b, type))
<1>1. PICK a, b : a = SubSeq(s, 1, n) /\ b = SubSeq(s, n + 1, Len(s))
  OBVIOUS
<1>2. Len(s) \in Nat /\ n \in Nat /\ n <= Len(s)
  BY DEF IsSeq
<1>3. /\ Len(a) = n
      /\ \A i \in 1 .. n : a[i] = s[i]
  <2>1. 1 \in Nat /\ 1 <= 1 /\ 1 <= n + 1 /\ n + 1 - 1 = n
    BY <1>2
  <2>2. Len(a) = n + 1 - 1 /\ \A i \in 1 .. n + 1 - 1 : a[i] = s[1 + i - 1]
    BY <1>1, <1>2, <2>1, SubSeqSeq
  <2> QED BY <1>2, <2>2
<1>4. /\ Len(b) = Len(s) - n
      /\ \A i \in 1 .. Len(s) - n : b[i] = s[n + i]
  <2>1. n + 1 \in Nat /\ 1 <= n + 1 /\ n + 1 <= Len(s) + 1 /\ Len(s) + 1 - (n + 1) = Len(s) - n
    BY <1>2
  <2>2. Len(b) = Len(s) + 1 - (n + 1) /\ \A i \in 1 .. Len(s) + 1 - (n + 1) : b[i] = s[n + 1 + i - 1]
    BY <1>1, <1>2, <2>1, SubSeqSeq
  <2> QED BY <1>2, <2>1, <2>2
<1>5. /\ \A i \in 1 .. Len(a) : i \in 1 .. Len(s) /\ i <= n /\ a[i] = s[i]
      /\ \A i \in 1 .. Len(b) : n + i \in 1 .. Len(s) /\ n + i > n /\ b[i] = s[n + i]
  BY <1>2, <1>3, <1>4
<1>6. Has(s, type) <=> Has(a, type) \/ Has(b, type)
  BY <1>1, SplitElems, HasElems
<1>7. ASSUME AtMostOne(s, type)
      PROVE  AtMostOne(a, type) /\ AtMostOne(b, type) /\ ~(Has(a, type) /\ Has(b, type))
  <2>1. AtMostOne(a, type)
    BY <1>5, <1>7 DEF AtMostOne
  <2>2. \A i, j \in 1 .. Len(b) : b[i].type = type /\ b[j].type = type => n + i = n + j
    BY <1>5, <1>7 DEF AtMostOne
  <2>3. AtMostOne(b, type)
    BY <1>2, <1>4, <2>2 DEF AtMostOne
  <2>4. ~(Has(a, type) /\ Has(b, type))
    <3>1. SUFFICES ASSUME NEW i \in 1 .. Len(a), NEW j \in 1 .. Len(b), a[i].type = type, b[j].type = type
                   PROVE  FALSE
      BY DEF Has
    <3>2. i = n + j
      BY <1>5, <1>7, <3>1 DEF AtMostOne
    <3> QED BY <1>2, <1>3, <1>4, <3>2
  <2> QED BY <2>1, <2>3, <2>4
<1> QED BY <1>1, <1>6, <1>7

(***************************************************************************)
(* The client and its commands: only a reset of the system writes          *)
(* RESET_SYSTEM to RESET, and it does not go by the way of the others.     *)
(***************************************************************************)
SysReset(r) == r.addr = RESET /\ r.value = RESET_SYSTEM

RegionCalls == {"write_region", "read_region", "send_read", "send_write"}
PlainCalls == {"boot_cpu", "reset_cpu", "reset_system", "drop"}

Active == main.at \in {"next", "enqueue", "poll", "wait_reset", "drain"}

ClientInv ==
  /\ DOMAIN main = {"at", "cmd", "call", "offset", "data", "req", "region", "result", "fresh"}
  /\ main.offset \in Nat /\ main.req.size \in Nat /\ main.req.beats \in Nat
  /\ main.region \in REGIONS \cup {NoRegion}
  /\ Active => main.cmd \in DOMAIN Script /\ main.call \in 1 .. Len(Script[main.cmd])
  /\ Active /\ main.cmd \in Connecting => main.at = "wait_reset"
  /\ Active /\ main.cmd \notin Connecting /\ Regional(main.cmd) => main.region \in REGIONS
  /\ main.at = "next" => main.offset < CallLength(Call, main.region)
  /\ main.at = "enqueue" => ~SysReset(main.req)

\* What reset asks for.
ResetRequest(r) == r = Request(r.id, TRUE, RESET, 4, 1, r.value) /\ r.value \in {RESET_CPU, RESET_SYSTEM}

Sent(c) == /\ c.type = "send" => ~SysReset(c.req)
           /\ c.type = "reset" => ResetRequest(c.req)

CommandsInv == IsSeq(commands) /\ \A i \in 1 .. Len(commands) : Sent(commands[i])

\* The calls of each command (shell.rs, lib.rs:398-760).
LEMMA ScriptCalls ==
  ASSUME NEW cmd \in DOMAIN Script
  PROVE  /\ cmd \in Connecting => Len(Script[cmd]) = 1 /\ Script[cmd][1] \in {"start_cpu", "start_system"}
         /\ cmd \notin Connecting =>
              /\ Len(Script[cmd]) \in Nat \ {0}
              /\ \A i \in 1 .. Len(Script[cmd]) :
                   Script[cmd][i] \in PlainCalls \cup IF Regional(cmd) THEN RegionCalls ELSE {}
<1>1. Segments \in Seq({"write_region"}) /\ Len(Segments) = SEGMENTS /\ SEGMENTS \in Nat \ {0}
  BY RegionsAssumption DEF Segments
<1>2. CASE cmd \in Connecting
  BY <1>2 DEF Script, Connecting, ConnectCpu, ConnectSystem
<1>3. CASE cmd = "loadelf"
  BY <1>1, <1>3 DEF Script, LoadElf, Connecting, RegionCalls, Regional
<1>4. CASE cmd = "reload"
  <2>1. Script[cmd] = ResetCpu \o Segments \o BootAt
    BY <1>4 DEF Script, Reload
  <2>2. ResetCpu \o Segments \o BootAt \in Seq({"reset_cpu", "write_region", "boot_cpu"})
    BY <1>1 DEF ResetCpu, BootAt
  <2>3. Len(ResetCpu \o Segments \o BootAt) = 1 + SEGMENTS + 1
    BY <1>1 DEF ResetCpu, BootAt
  <2> QED BY <1>1, <1>4, <2>1, <2>2, <2>3 DEF Connecting, RegionCalls, PlainCalls, Regional
<1>5. CASE cmd \in {"loadmem", "dumpmem", "memtest", "read", "write"}
  BY <1>5 DEF Script, LoadMem, DumpMem, MemTest, Read, Write, Connecting, RegionCalls, Regional
<1>6. CASE cmd \in {"reset", "hard_reset", "boot", "disconnect"}
  BY <1>6 DEF Script, ResetCpu, ResetSystem, BootAt, Connecting, PlainCalls, Regional
<1>7. DOMAIN Script = {"connect_cpu", "connect_system", "loadelf", "loadmem", "dumpmem", "memtest",
                       "read", "write", "reset", "hard_reset", "boot", "reload", "disconnect"}
  BY DEF Script
<1> QED BY <1>2, <1>3, <1>4, <1>5, <1>6, <1>7 DEF Connecting

\* The regions lie in the memory of either side.
LEMMA Regions ==
  ASSUME NEW region \in REGIONS \cup {NoRegion}
  PROVE  /\ region.addr \in Int /\ region.len \in Int
         /\ region \in REGIONS => region.addr >= 12 /\ region.len >= 1
BY RegionsAssumption, RegionAssumption DEF NoRegion, Memory

\* What a call sends (write_memory_region, read_memory_region, boot_cpu, ...).
LEMMA Requested ==
  ASSUME NEW call \in PlainCalls \cup RegionCalls, call # "drop",
         NEW region \in REGIONS \cup {NoRegion}, call \in RegionCalls => region \in REGIONS,
         NEW offset \in Nat, offset < CallLength(call, region), NEW id, NEW value
  PROVE  LET r == RequestAt(call, region, offset, id, value)
         IN  r.size \in Nat \ {0} /\ r.beats \in Nat /\ (call # "reset_system" => ~SysReset(r))
<1> DEFINE addr == region.addr + offset
           c == Chunk(addr, region.len - offset)
<1>1. /\ region.addr \in Int /\ region.len \in Int
      /\ region \in REGIONS => region.addr >= 12 /\ region.len >= 1
  BY Regions
<1>2. \A a, n \in Int : Chunk(a, n).size \in Nat \ {0} /\ Chunk(a, n).beats \in Nat
  <2>1. SUFFICES ASSUME NEW a \in Int, NEW n \in Int
                 PROVE  Chunk(a, n).size \in Nat \ {0} /\ Chunk(a, n).beats \in Nat
    OBVIOUS
  <2>2. n >= 4 => n \div 4 \in Nat
    OBVIOUS
  <2> QED BY <2>2, RegionAssumption DEF Chunk
<1>3. c.size \in Nat \ {0} /\ c.beats \in Nat /\ AlignedSize(region) \in Nat \ {0}
  BY <1>1, <1>2 DEF AlignedSize
<1>4. CASE call = "write_region"
  BY <1>1, <1>3, <1>4 DEF RequestAt, Request, SysReset, RESET, RegionCalls
<1>5. CASE call = "read_region"
  BY <1>1, <1>3, <1>5 DEF RequestAt, Request, SysReset, RESET, RegionCalls
<1>6. CASE call = "boot_cpu"
  <2>1. offset = 0 \/ offset = 1
    BY <1>6 DEF CallLength
  <2> QED BY <1>6, <2>1 DEF RequestAt, Request, SysReset, RESET, STATUS, BOOT
<1>7. CASE call \in {"reset_cpu", "reset_system"}
  BY <1>7 DEF RequestAt, Request, SysReset, RESET_SYSTEM, RESET_CPU
<1>8. CASE call = "send_read"
  BY <1>1, <1>3, <1>8 DEF RequestAt, Request, SysReset, RESET, RegionCalls
<1>9. CASE call = "send_write"
  BY <1>1, <1>3, <1>9 DEF RequestAt, Request, SysReset, RESET, RegionCalls
<1> QED BY <1>4, <1>5, <1>6, <1>7, <1>8, <1>9 DEF PlainCalls, RegionCalls

\* The call that the client is at.
LEMMA CallKnown ==
  ASSUME ClientInv, Active
  PROVE  /\ main.cmd \in Connecting => /\ main.at = "wait_reset" /\ main.call = 1
                                       /\ Len(Script[main.cmd]) = 1 /\ Call \in {"start_cpu", "start_system"}
         /\ main.cmd \notin Connecting => /\ Call \in PlainCalls \cup RegionCalls
                                          /\ Call \in RegionCalls => main.region \in REGIONS
         /\ main.call \in Nat /\ Len(Script[main.cmd]) \in Nat
<1>1. main.cmd \in DOMAIN Script /\ main.call \in 1 .. Len(Script[main.cmd])
  BY DEF ClientInv
<1>2. CASE main.cmd \in Connecting
  BY <1>1, <1>2, ScriptCalls DEF ClientInv, Call
<1>3. CASE main.cmd \notin Connecting
  <2>1. Call \in PlainCalls \cup IF Regional(main.cmd) THEN RegionCalls ELSE {}
    BY <1>1, <1>3, ScriptCalls DEF Call
  <2>2. Call \in RegionCalls => main.region \in REGIONS
    BY <1>3, <2>1 DEF ClientInv, PlainCalls, RegionCalls
  <2>3. Len(Script[main.cmd]) \in Nat
    BY <1>1, <1>3, ScriptCalls
  <2> QED BY <1>1, <1>3, <2>1, <2>2, <2>3
<1> QED BY <1>2, <1>3

\* The request that the client is about to send.
LEMMA NextKnown ==
  ASSUME ClientInv, main.at = "next", Call # "drop"
  PROVE  /\ NextRequest.size \in Nat \ {0} /\ NextRequest.beats \in Nat
         /\ ~ByCommand => ~SysReset(NextRequest)
<1>1. main.cmd \notin Connecting
  BY DEF ClientInv, Active
<1>2. /\ Call \in PlainCalls \cup RegionCalls
      /\ Call \in RegionCalls => main.region \in REGIONS
  BY <1>1, CallKnown DEF Active
<1>3. /\ main.region \in REGIONS \cup {NoRegion} /\ main.offset \in Nat
      /\ main.offset < CallLength(Call, main.region)
  BY DEF ClientInv
<1>4. PICK r : r = RequestAt(Call, main.region, main.offset, count.ids + 1, count.commands)
  OBVIOUS
<1>5. r.size \in Nat \ {0} /\ r.beats \in Nat /\ (Call # "reset_system" => ~SysReset(r))
  BY <1>2, <1>3, <1>4, Requested
<1> QED BY <1>4, <1>5 DEF NextRequest, ByCommand

LEMMA ResetKnown ==
  ASSUME ByCommand
  PROVE  /\ ResetRequest(NextRequest) /\ NextRequest.id = count.ids + 1
         /\ NextRequest.value = IF Call = "reset_system" THEN RESET_SYSTEM ELSE RESET_CPU
BY DEF ByCommand, NextRequest, RequestAt, ResetRequest, Request

\* A client that is at none of its calls.
LEMMA RestKeeps ==
  ASSUME ClientInv, main'.at \notin {"next", "enqueue", "poll", "wait_reset", "drain"},
         DOMAIN main' = DOMAIN main, main'.offset = main.offset, main'.region = main.region,
         main'.req \in {main.req, None}
  PROVE  ClientInv'
<1>1. main'.req.size \in Nat /\ main'.req.beats \in Nat
  BY DEF ClientInv, None, Request
<1> QED BY <1>1 DEF ClientInv, Active

LEMMA FinishKeeps ==
  ASSUME ClientInv, NEW result, main' \in {Finish(result), Failed, [Finish(result) EXCEPT !.at = "gone"]}
  PROVE  ClientInv'
<1>1. DOMAIN main = {"at", "cmd", "call", "offset", "data", "req", "region", "result", "fresh"}
  BY DEF ClientInv
<1>2. /\ DOMAIN main' = DOMAIN main /\ main'.at \in {"idle", "gone"} /\ main'.offset = main.offset
      /\ main'.region = main.region /\ main'.req \in {main.req, None}
  BY <1>1 DEF Finish, Failed
<1> QED BY <1>2, RestKeeps

\* One request of a call is done: the next one, the next call, or the end.
LEMMA AdvanceKeeps ==
  ASSUME ClientInv, main.at \in {"poll", "wait_reset", "drain"}, NEW data, main' = Advance(data)
  PROVE  ClientInv'
<1> DEFINE step == IF Call \in {"write_region", "read_region"} THEN main.req.size * main.req.beats ELSE 1
           all == IF Call = "read_region" THEN main.data \o data ELSE main.data
<1>1. Active
  BY DEF Active
<1>2. DOMAIN main = {"at", "cmd", "call", "offset", "data", "req", "region", "result", "fresh"}
  BY DEF ClientInv
<1>3. main.offset + step \in Nat
  <2>1. \A a, b \in Nat : a * b \in Nat
    OBVIOUS
  <2>2. step \in Nat
    BY <2>1 DEF ClientInv
  <2> QED BY <2>2 DEF ClientInv
<1> HIDE DEF step, all
<1>4. main' = IF main.offset + step < CallLength(Call, main.region)
              THEN [main EXCEPT !.at = "next", !.offset = main.offset + step, !.data = all]
              ELSE IF main.call < Len(Script[main.cmd])
              THEN [main EXCEPT !.at = "next", !.call = @ + 1, !.offset = 0, !.data = all]
              ELSE [Finish(Outcome(all)) EXCEPT !.data = all]
  BY DEF Advance, step, all
<1>5. CASE main.cmd \in Connecting
  <2>1. /\ main.call = 1 /\ Len(Script[main.cmd]) = 1 /\ CallLength(Call, main.region) = 1 /\ step = 1
    BY <1>1, <1>5, CallKnown DEF CallLength, step
  <2>2. main' = [Finish(Outcome(all)) EXCEPT !.data = all]
    BY <1>4, <2>1 DEF ClientInv
  <2>3. /\ DOMAIN main' = DOMAIN main /\ main'.at = "idle" /\ main'.offset = main.offset
        /\ main'.region = main.region /\ main'.req = None
    BY <1>2, <2>2 DEF Finish
  <2> QED BY <2>3, RestKeeps
<1>6. CASE main.cmd \notin Connecting
  <2>1. /\ main.cmd \in DOMAIN Script /\ main.call \in 1 .. Len(Script[main.cmd])
        /\ main.call \in Nat /\ Len(Script[main.cmd]) \in Nat
        /\ main.region \in REGIONS \cup {NoRegion} /\ main.req.size \in Nat /\ main.req.beats \in Nat
        /\ Regional(main.cmd) => main.region \in REGIONS
    BY <1>1, <1>6, CallKnown DEF ClientInv
  <2>2. CASE main.offset + step < CallLength(Call, main.region)
    <3>1. main' = [main EXCEPT !.at = "next", !.offset = main.offset + step, !.data = all]
      BY <1>4, <2>2
    <3>2. /\ DOMAIN main' = DOMAIN main /\ main'.at = "next" /\ main'.offset = main.offset + step
          /\ main'.region = main.region /\ main'.req = main.req /\ main'.cmd = main.cmd
          /\ main'.call = main.call
      BY <1>2, <3>1
    <3> QED BY <1>2, <1>3, <1>6, <2>1, <2>2, <3>2 DEF ClientInv, Call, Active
  <2>3. CASE ~(main.offset + step < CallLength(Call, main.region)) /\ main.call < Len(Script[main.cmd])
    <3>1. main' = [main EXCEPT !.at = "next", !.call = @ + 1, !.offset = 0, !.data = all]
      BY <1>4, <2>3
    <3>2. /\ DOMAIN main' = DOMAIN main /\ main'.at = "next" /\ main'.offset = 0
          /\ main'.region = main.region /\ main'.req = main.req /\ main'.cmd = main.cmd
          /\ main'.call = main.call + 1
      BY <1>2, <3>1
    <3>3. main.call + 1 \in 1 .. Len(Script[main.cmd])
      BY <2>1, <2>3
    <3>4. Call' \in PlainCalls \cup IF Regional(main.cmd) THEN RegionCalls ELSE {}
      BY <1>6, <2>1, <3>2, <3>3, ScriptCalls DEF Call
    <3>5. 0 < CallLength(Call', main.region)
      <4>1. Call' \in {"write_region", "read_region"} => main.region \in REGIONS
        BY <2>1, <3>4 DEF PlainCalls
      <4> QED BY <2>1, <4>1, Regions DEF CallLength
    <3> QED BY <1>2, <1>6, <2>1, <3>2, <3>3, <3>5 DEF ClientInv, Active
  <2>4. CASE ~(main.offset + step < CallLength(Call, main.region)) /\ ~(main.call < Len(Script[main.cmd]))
    <3>1. main' = [Finish(Outcome(all)) EXCEPT !.data = all]
      BY <1>4, <2>4
    <3>2. /\ DOMAIN main' = DOMAIN main /\ main'.at = "idle" /\ main'.offset = main.offset
          /\ main'.region = main.region /\ main'.req = None
      BY <1>2, <3>1 DEF Finish
    <3> QED BY <3>2, RestKeeps
  <2> QED BY <2>2, <2>3, <2>4
<1> QED BY <1>5, <1>6

\* The result of a reset is sent, whoever still waits for it.
Reported == \E ok \in BOOLEAN, left \in {commands, Tail(commands)} : ReportReset(ok, left)

\* The result of a reset reaches the client (handle_reset_command).
LEMMA ReportKeeps ==
  ASSUME ClientInv, Reported
  PROVE  ClientInv'
<1>0. PICK ok \in BOOLEAN, left \in {commands, Tail(commands)} : ReportReset(ok, left)
  BY DEF Reported
<1>1. CASE ~Awaited(left)
  BY <1>0, <1>1 DEF ReportReset, ClientInv, Active, Call
<1>2. CASE Awaited(left) /\ ~ok
  BY <1>0, <1>2, FinishKeeps DEF ReportReset
<1>3. CASE Awaited(left) /\ ok /\ Call = "reset_system" /\ backend = "fpga"
  <2>0. main.at = "wait_reset"
    BY <1>3 DEF Awaited
  <2>1. main' = [main EXCEPT !.at = "drain"]
    BY <1>0, <1>3 DEF ReportReset
  <2>2. DOMAIN main = {"at", "cmd", "call", "offset", "data", "req", "region", "result", "fresh"}
    BY DEF ClientInv
  <2>3. main.cmd \notin Connecting
    BY <1>3, <2>0, CallKnown DEF Active
  <2>4. /\ DOMAIN main' = DOMAIN main /\ main'.at = "drain" /\ main'.offset = main.offset
        /\ main'.region = main.region /\ main'.req = main.req /\ main'.cmd = main.cmd
        /\ main'.call = main.call
    BY <2>1, <2>2
  <2> QED BY <2>0, <2>3, <2>4 DEF ClientInv, Active
<1>4. CASE Awaited(left) /\ ok /\ ~(Call = "reset_system" /\ backend = "fpga")
  <2>1. main' = Advance(<< >>) /\ main.at = "wait_reset"
    BY <1>0, <1>4 DEF ReportReset, Awaited
  <2> QED BY <2>1, AdvanceKeeps
<1> QED BY <1>1, <1>2, <1>3, <1>4

\* A command goes to the background thread.
LEMMA SendKeeps ==
  ASSUME CommandsInv, NEW c, Sent(c), commands' = Append(commands, c)
  PROVE  CommandsInv'
<1>1. PICK u : u = Append(commands, c)
  OBVIOUS
<1>2. /\ IsSeq(u) /\ Len(u) = Len(commands) + 1 /\ Len(commands) \in Nat
      /\ \A i \in 1 .. Len(commands) : u[i] = commands[i]
      /\ u[Len(commands) + 1] = c
  BY <1>1, AppendSeq DEF CommandsInv, IsSeq
<1>3. \A i \in 1 .. Len(u) : i \in 1 .. Len(commands) \/ i = Len(commands) + 1
  BY <1>2
<1>4. \A i \in 1 .. Len(u) : Sent(u[i])
  BY <1>2, <1>3 DEF CommandsInv
<1> QED BY <1>1, <1>2, <1>4 DEF CommandsInv

\* The thread of the client sends no reset of the system but by its own command
\* (send_host_request, lib.rs:240-300).
LEMMA ClientStep ==
  ASSUME ClientInv, CommandsInv, Client
  PROVE  ClientInv' /\ CommandsInv'
<1>1. DOMAIN main = {"at", "cmd", "call", "offset", "data", "req", "region", "result", "fresh"}
  BY DEF ClientInv
<1>2. UNCHANGED commands => CommandsInv'
  BY DEF CommandsInv
<1>3. UNCHANGED main => ClientInv'
  BY DEF ClientInv, Active, Call
<1>4. ASSUME NEW cmd \in COMMANDS,
             NEW region \in IF Regional(cmd) THEN REGIONS ELSE {NoRegion}, Start(cmd, region)
      PROVE  ClientInv' /\ CommandsInv'
  <2>1. PICK m : m = [Idle EXCEPT !.cmd = cmd, !.region = region, !.fresh = events = << >>]
    OBVIOUS
  <2>2. /\ DOMAIN m = {"at", "cmd", "call", "offset", "data", "req", "region", "result", "fresh"}
        /\ m.at = "idle" /\ m.cmd = cmd /\ m.call = 1 /\ m.offset = 0 /\ m.region = region /\ m.req = None
    BY <2>1 DEF Idle
  <2>3. main' \in {[m EXCEPT !.result = "refused"], [m EXCEPT !.at = "next"]} /\ UNCHANGED commands
    BY <1>4, <2>1 DEF Start
  <2>4. /\ DOMAIN main' = DOMAIN m /\ main'.at \in {"idle", "next"} /\ main'.cmd = cmd
        /\ main'.call = 1 /\ main'.offset = 0 /\ main'.region = region /\ main'.req = None
    BY <2>2, <2>3
  <2>5. cmd \in DOMAIN Script /\ cmd \notin Connecting
    BY RuntimeAssumption
  <2>6. /\ Len(Script[cmd]) \in Nat \ {0}
        /\ Script[cmd][1] \in PlainCalls \cup IF Regional(cmd) THEN RegionCalls ELSE {}
    BY <2>5, ScriptCalls
  <2>7. 0 < CallLength(Script[cmd][1], region)
    <3>1. Script[cmd][1] \in {"write_region", "read_region"} => region \in REGIONS
      BY <2>6 DEF PlainCalls
    <3> QED BY <3>1, Regions DEF CallLength
  <2>8. region \in REGIONS \cup {NoRegion} /\ (Regional(cmd) => region \in REGIONS)
    OBVIOUS
  <2>9. None.size \in Nat /\ None.beats \in Nat
    BY DEF None, Request
  <2>10. Call' = Script[cmd][1]
    BY <2>4 DEF Call
  <2>11. main'.at # "enqueue"
    BY <2>4
  <2>12. 1 \in 1 .. Len(Script[cmd])
    BY <2>6
  <2>13. ClientInv'
    BY <2>2, <2>4, <2>5, <2>7, <2>8, <2>9, <2>10, <2>11, <2>12 DEF ClientInv, Active
  <2> QED BY <1>2, <2>3, <2>13
<1>5. CASE Arm
  <2>1. CASE main' = Finish("refused")
    BY <1>2, <1>5, <2>1, FinishKeeps DEF Arm
  <2>2. CASE main' = [main EXCEPT !.at = "enqueue", !.req = NextRequest]
    <3>1. /\ DOMAIN main' = DOMAIN main /\ main'.at = "enqueue" /\ main'.offset = main.offset
          /\ main'.region = main.region /\ main'.req = NextRequest /\ main'.cmd = main.cmd
          /\ main'.call = main.call
      BY <1>1, <2>2
    <3>2. /\ NextRequest.size \in Nat /\ NextRequest.beats \in Nat /\ ~SysReset(NextRequest)
      BY <1>5, NextKnown DEF Arm
    <3>3. main.at = "next" /\ UNCHANGED commands
      BY <1>5 DEF Arm
    <3>4. ClientInv'
      BY <3>1, <3>2, <3>3 DEF ClientInv, Active
    <3> QED BY <1>2, <3>3, <3>4
  <2> QED BY <1>5, <2>1, <2>2 DEF Arm
<1>6. CASE Enqueue
  <2>1. CASE bg.at = "ended"
    BY <1>2, <1>6, <2>1, FinishKeeps DEF Enqueue
  <2>2. CASE bg.at # "ended"
    <3>1. main.at = "enqueue" /\ ~SysReset(main.req)
      BY <1>6 DEF Enqueue, ClientInv
    <3>2. commands' = Append(commands, [type |-> "send", req |-> main.req])
      BY <1>6, <2>2 DEF Enqueue
    <3>3. CommandsInv'
      BY <3>1, <3>2, SendKeeps DEF Sent
    <3>4. main' = Finish("done") \/ main' = [main EXCEPT !.at = "poll"]
      BY <1>6, <2>2 DEF Enqueue
    <3>5. CASE main' = [main EXCEPT !.at = "poll"]
      <4>1. /\ DOMAIN main' = DOMAIN main /\ main'.at = "poll" /\ main'.offset = main.offset
            /\ main'.region = main.region /\ main'.req = main.req /\ main'.cmd = main.cmd
            /\ main'.call = main.call
        BY <1>1, <3>5
      <4>2. ClientInv'
        BY <3>1, <4>1 DEF ClientInv, Active
      <4> QED BY <3>3, <4>2
    <3> QED BY <3>3, <3>4, <3>5, FinishKeeps
  <2> QED BY <2>1, <2>2
<1>7. CASE AskReset
  <2>1. CASE main' \in {Finish("refused"), Finish("failed")} /\ UNCHANGED commands
    BY <1>2, <2>1, FinishKeeps
  <2>2. CASE /\ commands' = Append(commands, [type |-> "reset", req |-> NextRequest])
             /\ main' = [main EXCEPT !.at = "wait_reset", !.req = NextRequest]
    <3>1. CommandsInv'
      <4>1. main.at = "next" /\ ByCommand /\ Call # "drop"
        BY <1>7 DEF AskReset, ByCommand
      <4>2. ResetRequest(NextRequest)
        BY <4>1, ResetKnown
      <4> QED BY <2>2, <4>2, SendKeeps DEF Sent
    <3>2. /\ DOMAIN main' = DOMAIN main /\ main'.at = "wait_reset" /\ main'.offset = main.offset
          /\ main'.region = main.region /\ main'.req = NextRequest /\ main'.cmd = main.cmd
          /\ main'.call = main.call
      BY <1>1, <2>2
    <3>3. main.at = "next" /\ Call # "drop"
      BY <1>7 DEF AskReset, ByCommand
    <3>4. NextRequest.size \in Nat /\ NextRequest.beats \in Nat
      BY <3>3, NextKnown
    <3>5. ClientInv'
      BY <3>2, <3>3, <3>4 DEF ClientInv, Active
    <3> QED BY <3>1, <3>5
  <2> QED BY <1>7, <2>1, <2>2 DEF AskReset
<1>8. CASE Poll
  <2>1. main.at = "poll" /\ UNCHANGED commands
    BY <1>8 DEF Poll
  <2>2. \/ main' \in {Finish("refused"), Finish("failed")} \/ UNCHANGED main
        \/ main' = Advance(Head(events).data)
    BY <1>8 DEF Poll
  <2> QED BY <1>2, <1>3, <2>1, <2>2, FinishKeeps, AdvanceKeeps
<1>9. CASE IdlePoll \/ Disconnect
  <2>1. UNCHANGED main \/ main' = [main EXCEPT !.at = "join"]
    BY <1>9 DEF IdlePoll, Disconnect
  <2>2. ClientInv'
    <3>1. CASE main' = [main EXCEPT !.at = "join"]
      <4>1. /\ DOMAIN main' = DOMAIN main /\ main'.at = "join" /\ main'.offset = main.offset
            /\ main'.region = main.region /\ main'.req = main.req
        BY <1>1, <3>1
      <4> QED BY <4>1, RestKeeps
    <3> QED BY <1>3, <2>1, <3>1
  <2>3. CASE IdlePoll
    BY <1>2, <2>2, <2>3 DEF IdlePoll
  <2>4. CASE Disconnect
    <3>1. commands' = Append(commands, [type |-> "shutdown", req |-> None])
      BY <2>4 DEF Disconnect
    <3> QED BY <2>2, <3>1, SendKeeps DEF Sent
  <2> QED BY <1>9, <2>3, <2>4
<1>10. CASE Join
  BY <1>2, <1>10, FinishKeeps DEF Join
<1>11. CASE Drain
  <2>1. main.at = "drain" /\ UNCHANGED commands /\ (UNCHANGED main \/ main' = Advance(<< >>))
    BY <1>11 DEF Drain
  <2> QED BY <1>2, <1>3, <2>1, AdvanceKeeps
<1>12. CASE GiveUpReset
  BY <1>2, <1>12, FinishKeeps DEF GiveUpReset
<1> QED BY <1>4, <1>5, <1>6, <1>7, <1>8, <1>9, <1>10, <1>11, <1>12 DEF Client

\* The background thread takes commands in order and reports a reset; nothing
\* else touches the client.
LEMMA ThreadClient ==
  ASSUME ClientInv, CommandsInv, Thread \/ Failure \/ CpuIssue \/ DevTake \/ DevServe
  PROVE  ClientInv' /\ CommandsInv'
<1>1. UNCHANGED main => ClientInv'
  BY DEF ClientInv, Active, Call
<1>2. UNCHANGED commands => CommandsInv'
  BY DEF CommandsInv
<1>3. UNCHANGED main \/ Reported => ClientInv'
  BY <1>1, ReportKeeps
<1>4. CASE Command
  <2>1. UNCHANGED main \/ Reported
    BY <1>4 DEF Command, LocalCommand, RtlCommand, SimCommand, FpgaReset, SimReset, Reported
  <2>2. commands # << >> /\ commands' = Tail(commands)
    BY <1>4 DEF Command
  <2>3. PICK u : u = Tail(commands)
    OBVIOUS
  <2>4. /\ IsSeq(u) /\ Len(commands) >= 1 /\ Len(u) = Len(commands) - 1 /\ Len(commands) \in Nat
        /\ \A i \in 1 .. Len(commands) - 1 : u[i] = commands[i + 1]
    BY <2>2, <2>3, TailSeq DEF CommandsInv, IsSeq
  <2>5. \A i \in 1 .. Len(u) : Sent(u[i])
    <3>1. \A i \in 1 .. Len(u) : i + 1 \in 1 .. Len(commands) /\ u[i] = commands[i + 1]
      BY <2>4
    <3> QED BY <3>1 DEF CommandsInv
  <2>6. CommandsInv'
    BY <2>2, <2>3, <2>4, <2>5 DEF CommandsInv
  <2> QED BY <1>3, <2>1, <2>6
<1>5. CASE NoCommand \/ SimTimeOut \/ NoTimeOut \/ RxPacket \/ TxPackets \/ SimLink \/ FpgaCpu \/ SimNoResponse
  BY <1>1, <1>2, <1>5
     DEF NoCommand, SimTimeOut, NoTimeOut, RxPacket, TxPackets, SimLink, FpgaCpu, SimNoResponse, client
<1>6. CASE FpgaTimeOut
  BY <1>2, <1>3, <1>6 DEF FpgaTimeOut, Reported
<1>7. CASE Response
  BY <1>2, <1>3, <1>7 DEF Response, Reported
<1>8. CASE Settle
  BY <1>2, <1>3, <1>8 DEF Settle, Reported
<1>9. CASE Failure
  BY <1>1, <1>2, <1>3, <1>9 DEF Failure, PortError, SimulationError, client, Reported
<1>10. CASE CpuIssue \/ DevTake \/ DevServe
  BY <1>1, <1>2, <1>10 DEF CpuIssue, DevTake, DevServe, client
<1> QED BY <1>4, <1>5, <1>6, <1>7, <1>8, <1>9, <1>10 DEF Thread

(***************************************************************************)
(* Where the background thread can be.                                     *)
(***************************************************************************)
Resetting == bg.resetting = "system"

\* The pass that sends the packet of a system reset is over.
Past == Resetting /\ bg.at \in {"response", "settle"}

ThreadInv ==
  /\ backend \in {"fpga", "sim"}
  /\ DOMAIN bg = {"at", "resetting"}
  /\ bg.at \in {"command", "timeout", "link", "response", "settle", "ended"}
  /\ bg.resetting \in {"no", "cpu", "system"}
  /\ bg.at \in {"command", "ended"} => bg.resetting = "no"
  /\ bg.at = "settle" => Resetting
  /\ backend = "sim" => bg.resetting = "no"

\* The steps of a pass (poll_once, run_loop), and where its end leads.
LEMMA ProceedKeeps ==
  ASSUME ThreadInv, UNCHANGED backend, Proceed,
         bg.at \in (IF backend = "fpga" THEN {"command", "timeout", "link"}
                    ELSE {"command", "timeout", "link", "response"})
  PROVE  /\ ThreadInv' /\ bg'.resetting = bg.resetting /\ bg'.at = Order[backend][bg.at]
         /\ Resetting' = Resetting
BY DEF ThreadInv, Proceed, Order, Resetting

LEMMA PassDoneKeeps ==
  ASSUME ThreadInv, UNCHANGED backend, PassDone, backend = "fpga" \/ bg.resetting = "no"
  PROVE  /\ ThreadInv' /\ bg'.resetting = bg.resetting
         /\ Resetting => bg'.at = "settle"
         /\ Resetting' = Resetting
BY DEF ThreadInv, PassDone, Resetting

LEMMA ResetOverKeeps ==
  ASSUME ThreadInv, UNCHANGED backend, NEW ok \in BOOLEAN, ResetOver(ok)
  PROVE  ThreadInv' /\ ~Resetting'
BY DEF ThreadInv, ResetOver, Resetting

(***************************************************************************)
(* An access of the CPU is in one place: its packet, a buffer of the       *)
(* handler, or the packet of its answer.  The arguments are the handler h, *)
(* and tx, toDev and toHost.                                               *)
(***************************************************************************)
HasAccess(h, t, d, u) ==
  \/ Has(u, "cpu_req") \/ h.incoming_request # None \/ h.accepted_request # None
  \/ Has(t, "cpu_resp") \/ Has(d, "cpu_resp")

OneAccess(h, t, d, u) ==
  /\ AtMostOne(u, "cpu_req") /\ AtMostOne(t, "cpu_resp") /\ AtMostOne(d, "cpu_resp")
  /\ Has(u, "cpu_req") => h.incoming_request = None
  /\ Has(u, "cpu_req") \/ h.incoming_request # None => h.accepted_request = None
  /\ Has(u, "cpu_req") \/ h.incoming_request # None \/ h.accepted_request # None
       => ~Has(t, "cpu_resp") /\ ~Has(d, "cpu_resp")
  /\ ~(Has(t, "cpu_resp") /\ Has(d, "cpu_resp"))

(***************************************************************************)
(* And so is a request of the host, for which the handler keeps its buffer *)
(* until the response is taken; held is what the target has in hand.       *)
(***************************************************************************)
OneRequest(h, t, d, u, held) ==
  /\ h.outgoing_request = None => ~h.tx_started
  /\ AtMostOne(t, "host_req") /\ AtMostOne(d, "host_req") /\ AtMostOne(u, "host_resp")
  /\ Has(t, "host_req") \/ Has(d, "host_req") \/ held # None \/ Has(u, "host_resp")
     \/ h.outgoing_response # NoResponse => h.outgoing_request # None /\ h.tx_started
  /\ ~(Has(t, "host_req") /\ Has(d, "host_req"))
  /\ Has(t, "host_req") \/ Has(d, "host_req") => held = None
  /\ Has(t, "host_req") \/ Has(d, "host_req") \/ held # None => ~Has(u, "host_resp")
  /\ Has(t, "host_req") \/ Has(d, "host_req") \/ held # None \/ Has(u, "host_resp")
       => h.outgoing_response = NoResponse

IsHandler(h) ==
  /\ DOMAIN h = {"outgoing_request", "tx_started", "outgoing_response", "incoming_request",
                 "accepted_request", "pending_response"}
  /\ h.tx_started \in BOOLEAN /\ h.pending_response \in BOOLEAN

\* The target sends requests of its CPU and responses.
FromTarget(u) == IsSeq(u) /\ \A i \in 1 .. Len(u) : u[i].type \in {"cpu_req", "host_resp"}

\* It does not matter which of the two buffers a packet waits in.
LEMMA Symmetric ==
  ASSUME NEW h, NEW t, NEW d, NEW u
  PROVE  /\ HasAccess(h, t, d, u) <=> HasAccess(h, d, t, u)
         /\ OneAccess(h, t, d, u) <=> OneAccess(h, d, t, u)
         /\ \A q : OneRequest(h, t, d, u, q) <=> OneRequest(h, d, t, u, q)
BY DEF OneAccess, OneRequest, HasAccess

LEMMA FirstFromTarget ==
  ASSUME NEW u, FromTarget(u), u # << >>
  PROVE  FromTarget(Tail(u)) /\ IsSeq(u) /\ Head(u).type \in {"cpu_req", "host_resp"}
<1>1. PICK v : v = Tail(u)
  OBVIOUS
<1>2. /\ IsSeq(v) /\ Len(u) >= 1 /\ Len(u) \in Nat /\ Len(v) = Len(u) - 1 /\ Head(u) = u[1]
      /\ \A i \in 1 .. Len(u) - 1 : v[i] = u[i + 1]
  BY <1>1, TailSeq DEF FromTarget, IsSeq
<1>3. \A i \in 1 .. Len(v) : i + 1 \in 1 .. Len(u) /\ v[i] = u[i + 1]
  BY <1>2
<1>4. 1 \in 1 .. Len(u)
  BY <1>2
<1> QED BY <1>1, <1>2, <1>3, <1>4 DEF FromTarget

\* A packet of the target goes to its buffer (finalize_rx_packet).
LEMMA TakeOp ==
  ASSUME NEW h, IsHandler(h), NEW t, NEW d, NEW u, FromTarget(u), u # << >>, CanTake(h, Head(u)),
         NEW g, g = FinalizeRx(h, Head(u))
  PROVE  /\ IsHandler(g) /\ g.outgoing_request = h.outgoing_request /\ g.tx_started = h.tx_started
         /\ OneAccess(h, t, d, u) => /\ OneAccess(g, t, d, Tail(u))
                                     /\ HasAccess(g, t, d, Tail(u)) => HasAccess(h, t, d, u)
         /\ \A q : OneRequest(h, t, d, u, q) => OneRequest(g, t, d, Tail(u), q)
<1>1. /\ Head(u).type \in {"cpu_req", "host_resp"}
      /\ \A type : /\ Has(u, type) <=> Has(Tail(u), type) \/ Head(u).type = type
                   /\ AtMostOne(u, type) => /\ AtMostOne(Tail(u), type)
                                            /\ Head(u).type = type => ~Has(Tail(u), type)
  BY FirstFromTarget, TailHas
<1>2. CASE Head(u).type = "cpu_req"
  <2>1. /\ DOMAIN g = DOMAIN h /\ g.outgoing_request = h.outgoing_request /\ g.tx_started = h.tx_started
        /\ g.outgoing_response = h.outgoing_response /\ g.accepted_request = h.accepted_request
        /\ g.pending_response = h.pending_response /\ h.incoming_request = None
    BY <1>2 DEF FinalizeRx, IsResponse, CanTake, IsHandler
  <2>2. OneAccess(h, t, d, u) => /\ OneAccess(g, t, d, Tail(u))
                                 /\ HasAccess(g, t, d, Tail(u)) => HasAccess(h, t, d, u)
    BY <1>1, <1>2, <2>1 DEF OneAccess, HasAccess
  <2>3. \A q : OneRequest(h, t, d, u, q) => OneRequest(g, t, d, Tail(u), q)
    BY <1>1, <1>2, <2>1 DEF OneRequest
  <2> QED BY <2>1, <2>2, <2>3 DEF IsHandler
<1>3. CASE Head(u).type = "host_resp"
  <2>1. /\ DOMAIN g = DOMAIN h /\ g.outgoing_request = h.outgoing_request /\ g.tx_started = h.tx_started
        /\ g.incoming_request = h.incoming_request /\ g.accepted_request = h.accepted_request
        /\ g.pending_response = h.pending_response
    BY <1>3 DEF FinalizeRx, IsResponse, CanTake, IsHandler
  <2>2. OneAccess(h, t, d, u) => /\ OneAccess(g, t, d, Tail(u))
                                 /\ HasAccess(g, t, d, Tail(u)) => HasAccess(h, t, d, u)
    BY <1>1, <1>3, <2>1 DEF OneAccess, HasAccess
  <2>3. \A q : OneRequest(h, t, d, u, q) => OneRequest(g, t, d, Tail(u), q)
    BY <1>1, <1>3, <2>1 DEF OneRequest
  <2> QED BY <2>1, <2>2, <2>3 DEF IsHandler
<1> QED BY <1>1, <1>2, <1>3

\* What start_tx_packet makes.
LEMMA EncodedHas ==
  ASSUME NEW h, IsHandler(h)
  PROVE  /\ IsSeq(Encoded(h)) /\ Len(Encoded(h)) <= 1
         /\ \A type : AtMostOne(Encoded(h), type)
         /\ Has(Encoded(h), "cpu_resp") <=> h.accepted_request # None /\ h.pending_response
         /\ Has(Encoded(h), "host_req") <=> /\ ~(h.accepted_request # None /\ h.pending_response)
                                            /\ h.outgoing_request # None /\ ~h.tx_started
         /\ \A i \in 1 .. Len(Encoded(h)) :
              Encoded(h)[i].type = "host_req" => Encoded(h)[i].req = h.outgoing_request
<1>1. CASE HasTx(h)
  <2>1. PICK x : x = StartTx(h)[2]
    OBVIOUS
  <2>2. Encoded(h) = <<x>>
    BY <1>1, <2>1 DEF Encoded
  <2>3. IsSeq(<<x>>) /\ Len(<<x>>) = 1 /\ <<x>>[1] = x
    BY DEF IsSeq
  <2>4. /\ \A type : Has(<<x>>, type) <=> x.type = type
        /\ \A type : AtMostOne(<<x>>, type)
    BY <2>3 DEF Has, AtMostOne
  <2>5. /\ h.accepted_request # None /\ h.pending_response => x.type = "cpu_resp"
        /\ ~(h.accepted_request # None /\ h.pending_response) =>
             x.type = "host_req" /\ x.req = h.outgoing_request
    BY <2>1 DEF StartTx, Packet
  <2> QED BY <1>1, <2>2, <2>3, <2>4, <2>5 DEF HasTx
<1>2. CASE ~HasTx(h)
  <2>1. Encoded(h) = << >>
    BY <1>2 DEF Encoded
  <2> QED BY <1>2, <2>1, EmptySeq DEF HasTx
<1> QED BY <1>1, <1>2

\* A packet leaves the handler for a buffer.
LEMMA StartOp ==
  ASSUME NEW h, IsHandler(h), NEW t, IsSeq(t), NEW d, NEW u, NEW g, g = AfterTx(h)
  PROVE  /\ IsHandler(g) /\ g.outgoing_request = h.outgoing_request
         /\ g.outgoing_response = h.outgoing_response /\ IsSeq(t \o Encoded(h))
         /\ OneAccess(h, t, d, u) => /\ OneAccess(g, t \o Encoded(h), d, u)
                                     /\ HasAccess(g, t \o Encoded(h), d, u) => HasAccess(h, t, d, u)
         /\ \A q : OneRequest(h, t, d, u, q) => OneRequest(g, t \o Encoded(h), d, u, q)
<1>1. PICK e : e = Encoded(h)
  OBVIOUS
<1>2. /\ IsSeq(e) /\ \A type : AtMostOne(e, type)
      /\ Has(e, "cpu_resp") <=> h.accepted_request # None /\ h.pending_response
      /\ Has(e, "host_req") <=> /\ ~(h.accepted_request # None /\ h.pending_response)
                                /\ h.outgoing_request # None /\ ~h.tx_started
  BY <1>1, EncodedHas
<1>3. PICK v : v = t \o e
  OBVIOUS
<1>4. /\ IsSeq(v)
      /\ \A type : /\ Has(v, type) <=> Has(t, type) \/ Has(e, type)
                   /\ AtMostOne(t, type) /\ ~(Has(t, type) /\ Has(e, type)) => AtMostOne(v, type)
  BY <1>2, <1>3, ConcatSeq, ConcatHas
<1>5. /\ IsHandler(g) /\ g.outgoing_request = h.outgoing_request
      /\ g.outgoing_response = h.outgoing_response /\ g.incoming_request = h.incoming_request
      /\ g.accepted_request = IF Has(e, "cpu_resp") THEN None ELSE h.accepted_request
      /\ g.tx_started <=> h.tx_started \/ Has(e, "host_req")
  <2>1. CASE h.accepted_request # None /\ h.pending_response
    <3>1. g = [h EXCEPT !.accepted_request = None, !.pending_response = FALSE]
      BY <2>1 DEF AfterTx, HasTx, StartTx
    <3> QED BY <1>2, <2>1, <3>1 DEF IsHandler
  <2>2. CASE ~(h.accepted_request # None /\ h.pending_response) /\ h.outgoing_request # None /\ ~h.tx_started
    <3>1. g = [h EXCEPT !.tx_started = TRUE]
      BY <2>2 DEF AfterTx, HasTx, StartTx
    <3> QED BY <1>2, <2>2, <3>1 DEF IsHandler
  <2>3. CASE ~HasTx(h)
    <3>1. g = h
      BY <2>3 DEF AfterTx
    <3> QED BY <1>2, <2>3, <3>1 DEF IsHandler, HasTx
  <2> QED BY <2>1, <2>2, <2>3 DEF HasTx
<1>6. OneAccess(h, t, d, u) => /\ OneAccess(g, v, d, u)
                               /\ HasAccess(g, v, d, u) => HasAccess(h, t, d, u)
  BY <1>2, <1>4, <1>5 DEF OneAccess, HasAccess
<1>7. \A q : OneRequest(h, t, d, u, q) => OneRequest(g, v, d, u, q)
  BY <1>2, <1>4, <1>5 DEF OneRequest
<1> QED BY <1>1, <1>3, <1>4, <1>5, <1>6, <1>7

\* A buffer, parted in two.
Parted(t, a, b) ==
  /\ IsSeq(a) /\ IsSeq(b)
  /\ \A type : /\ Has(t, type) <=> Has(a, type) \/ Has(b, type)
               /\ AtMostOne(t, type) => /\ AtMostOne(a, type) /\ AtMostOne(b, type)
                                        /\ ~(Has(a, type) /\ Has(b, type))

LEMMA SplitParted ==
  ASSUME NEW t, IsSeq(t), NEW n \in 0 .. Len(t)
  PROVE  Parted(t, SubSeq(t, 1, n), SubSeq(t, n + 1, Len(t)))
<1>1. PICK a, b : a = SubSeq(t, 1, n) /\ b = SubSeq(t, n + 1, Len(t))
  OBVIOUS
<1>2. IsSeq(a) /\ IsSeq(b)
  <2>1. Len(t) \in Nat /\ n \in Nat /\ 1 \in Nat /\ n + 1 \in Nat /\ n <= Len(t)
    BY DEF IsSeq
  <2>2. 1 <= 1 /\ 1 <= n + 1 /\ n + 1 <= Len(t) + 1
    BY <2>1
  <2>3. IsSeq(a)
    BY <1>1, <2>1, <2>2, SubSeqSeq
  <2>4. IsSeq(b)
    BY <1>1, <2>1, <2>2, SubSeqSeq
  <2> QED BY <2>3, <2>4
<1>3. \A type : /\ Has(t, type) <=> Has(a, type) \/ Has(b, type)
                /\ AtMostOne(t, type) => /\ AtMostOne(a, type) /\ AtMostOne(b, type)
                                         /\ ~(Has(a, type) /\ Has(b, type))
  BY <1>1, SplitHas
<1>4. Parted(t, a, b)
  BY <1>2, <1>3 DEF Parted
<1> QED BY <1>1, <1>4

\* Some of a buffer moves to the other one (drain_tx_buffer).
LEMMA SplitOp ==
  ASSUME NEW h, NEW t, NEW d, IsSeq(d), NEW u, NEW a, NEW b, Parted(t, a, b), NEW v, v = d \o a
  PROVE  /\ IsSeq(b) /\ IsSeq(v)
         /\ OneAccess(h, t, d, u) => /\ OneAccess(h, b, v, u)
                                     /\ HasAccess(h, b, v, u) => HasAccess(h, t, d, u)
         /\ \A q : OneRequest(h, t, d, u, q) => OneRequest(h, b, v, u, q)
<1>1. /\ IsSeq(a) /\ IsSeq(b)
      /\ \A type : /\ Has(t, type) <=> Has(a, type) \/ Has(b, type)
                   /\ AtMostOne(t, type) => /\ AtMostOne(a, type) /\ AtMostOne(b, type)
                                            /\ ~(Has(a, type) /\ Has(b, type))
  BY DEF Parted
<1>2. /\ IsSeq(v)
      /\ \A type : /\ Has(v, type) <=> Has(d, type) \/ Has(a, type)
                   /\ AtMostOne(d, type) /\ AtMostOne(a, type) /\ ~(Has(d, type) /\ Has(a, type))
                        => AtMostOne(v, type)
  BY <1>1, ConcatSeq, ConcatHas
<1>3. OneAccess(h, t, d, u) => /\ OneAccess(h, b, v, u)
                               /\ HasAccess(h, b, v, u) => HasAccess(h, t, d, u)
  BY <1>1, <1>2 DEF OneAccess, HasAccess
<1>4. \A q : OneRequest(h, t, d, u, q) => OneRequest(h, b, v, u, q)
  BY <1>1, <1>2 DEF OneRequest
<1> QED BY <1>1, <1>2, <1>3, <1>4

\* The request of the CPU is accepted, and answered.
LEMMA AcceptOp ==
  ASSUME NEW h, IsHandler(h), NEW t, NEW d, NEW u, NEW g,
         g = (IF HasIncoming(h) THEN Accept(h) ELSE h)
  PROVE  /\ IsHandler(g) /\ g.outgoing_request = h.outgoing_request /\ g.tx_started = h.tx_started
         /\ g.outgoing_response = h.outgoing_response
         /\ OneAccess(h, t, d, u) => /\ OneAccess(g, t, d, u)
                                     /\ HasAccess(g, t, d, u) => HasAccess(h, t, d, u)
         /\ \A q : OneRequest(h, t, d, u, q) => OneRequest(g, t, d, u, q)
<1>1. CASE HasIncoming(h)
  <2>1. g = [h EXCEPT !.accepted_request = h.incoming_request, !.incoming_request = None]
    BY <1>1 DEF Accept
  <2>2. /\ DOMAIN g = DOMAIN h /\ g.outgoing_request = h.outgoing_request /\ g.tx_started = h.tx_started
        /\ g.outgoing_response = h.outgoing_response /\ g.accepted_request = h.incoming_request
        /\ g.incoming_request = None /\ g.pending_response = h.pending_response
    BY <2>1 DEF IsHandler
  <2> QED BY <1>1, <2>2 DEF HasIncoming, OneAccess, HasAccess, OneRequest, IsHandler
<1>2. CASE ~HasIncoming(h)
  BY <1>2
<1> QED BY <1>1, <1>2

LEMMA CompleteOp ==
  ASSUME NEW h, IsHandler(h), NEW t, NEW d, NEW u, NEW g, g = Complete(h)
  PROVE  /\ IsHandler(g) /\ g.outgoing_request = h.outgoing_request /\ g.tx_started = h.tx_started
         /\ g.outgoing_response = h.outgoing_response
         /\ OneAccess(h, t, d, u) => /\ OneAccess(g, t, d, u)
                                     /\ HasAccess(g, t, d, u) => HasAccess(h, t, d, u)
         /\ \A q : OneRequest(h, t, d, u, q) => OneRequest(g, t, d, u, q)
<1>1. /\ DOMAIN g = DOMAIN h /\ g.outgoing_request = h.outgoing_request /\ g.tx_started = h.tx_started
      /\ g.outgoing_response = h.outgoing_response /\ g.accepted_request = h.accepted_request
      /\ g.incoming_request = h.incoming_request /\ g.pending_response = TRUE
  BY DEF IsHandler, Complete
<1> QED BY <1>1 DEF OneAccess, HasAccess, OneRequest, IsHandler

(***************************************************************************)
(* The invariant of the link.                                              *)
(***************************************************************************)
IsReset(pkt) == pkt.type = "host_req" /\ SysReset(pkt.req)

\* A reset of the system is on its way only while it is carried out: it leaves the
\* handler last, and finds the target with nothing else to do.
ResetLast ==
  /\ SysReset(dev.request) => Past /\ toDev = << >> /\ tx = << >>
  /\ \A i \in 1 .. Len(toDev) : IsReset(toDev[i]) => Past /\ i = Len(toDev) /\ tx = << >>
  /\ \A i \in 1 .. Len(tx) : IsReset(tx[i]) => Past
  /\ SysReset(handler.outgoing_request) => Resetting

\* The target has just started anew, and what the handler still holds of its CPU is
\* about to be cleared.
Restarted == Past /\ toDev = << >> /\ tx = << >> /\ dev.request = None /\ dev.booting

CpuAccess ==
  /\ OneAccess(handler, tx, toDev, toHost)
  /\ HasAccess(handler, tx, toDev, toHost) => dev.cpu_wait_resp \/ Restarted

\* A reset of the system that starts the runtime may find a response of an earlier
\* session, which is none to the reset.
LeftOver ==
  /\ Resetting /\ handler.outgoing_request.write = TRUE /\ ~handler.tx_started
  /\ ~Has(tx, "host_req") /\ ~Has(toDev, "host_req") /\ dev.request = None
  /\ handler.outgoing_response = NoResponse
  /\ \A i \in 1 .. Len(toHost) : toHost[i].type = "host_resp" => toHost[i].req.write = FALSE

HostRequest ==
  \/ Past
  \/ OneRequest(handler, tx, toDev, toHost, dev.request)
  \/ LeftOver

Shaped ==
  /\ IsHandler(handler) /\ IsSeq(tx) /\ IsSeq(toDev) /\ FromTarget(toHost)
  /\ DOMAIN dev = {"cpu_wait_resp", "request", "booting"}
  /\ dev.cpu_wait_resp \in BOOLEAN /\ dev.booting \in BOOLEAN
  /\ DOMAIN count = {"ids", "commands", "faults", "botched", "cpu"}
  /\ count.faults \in Nat /\ count.botched \in BOOLEAN

LinkInv ==
  /\ Shaped
  /\ ~count.botched => ResetLast /\ CpuAccess
  /\ backend = "sim" \/ InTime => HostRequest
  /\ count.botched => backend = "fpga" /\ ~InTime

\* Nothing moves on the link, and no reset ends.
LEMMA StillKeeps ==
  ASSUME LinkInv, UNCHANGED <<backend, handler, tx, toDev, toHost, dev>>,
         DOMAIN count' = DOMAIN count, count'.faults \in Nat, count'.faults >= count.faults,
         count'.botched = count.botched, Resetting => Resetting', Past => Past'
  PROVE  LinkInv'
<1>1. Shaped'
  BY DEF LinkInv, Shaped
<1>2. ~count'.botched => ResetLast' /\ CpuAccess'
  BY DEF LinkInv, ResetLast, CpuAccess, Restarted
<1>3. InTime' => InTime
  BY DEF LinkInv, Shaped, InTime
<1>4. HostRequest => HostRequest'
  BY DEF HostRequest, LeftOver
<1> QED BY <1>1, <1>2, <1>3, <1>4 DEF LinkInv

\* A handler, a link and a target that start anew.
LEMMA CleanKeeps ==
  ASSUME LinkInv, UNCHANGED <<backend, count>>, handler' = NewHandler,
         tx' = << >>, toDev' = << >>, toHost' = << >>,
         dev'.request = None, DOMAIN dev' = DOMAIN dev,
         dev'.cpu_wait_resp \in BOOLEAN, dev'.booting \in BOOLEAN
  PROVE  LinkInv'
<1>1. /\ IsHandler(NewHandler) /\ NewHandler.outgoing_request = None /\ ~NewHandler.tx_started
      /\ NewHandler.outgoing_response = NoResponse /\ NewHandler.incoming_request = None
      /\ NewHandler.accepted_request = None
  BY DEF NewHandler, IsHandler
<1>2. /\ IsSeq(<< >>) /\ Len(<< >>) = 0 /\ FromTarget(<< >>)
      /\ \A type : ~Has(<< >>, type) /\ AtMostOne(<< >>, type)
  BY EmptySeq DEF FromTarget
<1>3. Shaped'
  BY <1>1, <1>2 DEF LinkInv, Shaped
<1>4. ~SysReset(None)
  BY DEF SysReset, None, Request, RESET_SYSTEM
<1>5. ResetLast'
  BY <1>1, <1>2, <1>4 DEF ResetLast
<1>6. CpuAccess'
  BY <1>1, <1>2 DEF CpuAccess, OneAccess, HasAccess
<1>7. HostRequest'
  BY <1>1, <1>2 DEF HostRequest, OneRequest
<1> QED BY <1>3, <1>5, <1>6, <1>7 DEF LinkInv, InTime

\* A request enters an idle handler (send_request).
LEMMA SendLink ==
  ASSUME LinkInv, UNCHANGED <<backend, tx, toDev, toHost, dev>>, NEW r,
         DOMAIN count' = DOMAIN count, count'.faults = count.faults, count'.botched = count.botched,
         handler.outgoing_request = None, handler' = SendRequest(handler, r),
         ~Resetting, SysReset(r) => Resetting', ~Past'
  PROVE  LinkInv'
<1>1. /\ IsHandler(handler)' /\ handler'.outgoing_request = r
      /\ handler'.tx_started = handler.tx_started
      /\ handler'.outgoing_response = handler.outgoing_response
      /\ handler'.incoming_request = handler.incoming_request
      /\ handler'.accepted_request = handler.accepted_request
  BY DEF LinkInv, Shaped, IsHandler, SendRequest
<1>2. Shaped'
  BY <1>1 DEF LinkInv, Shaped
<1>3. ~Past
  BY DEF Past
<1>4. ~count'.botched => ResetLast' /\ CpuAccess'
  BY <1>1, <1>3 DEF LinkInv, ResetLast, CpuAccess, OneAccess, HasAccess, Restarted
<1>5. HostRequest => HostRequest'
  BY <1>1, <1>3 DEF HostRequest, LeftOver, OneRequest
<1> QED BY <1>2, <1>4, <1>5 DEF LinkInv, InTime

(***************************************************************************)
(* The steps, one by one.                                                  *)
(***************************************************************************)

\* What the client's thread leaves alone (lib.rs:240-760).
LEMMA ClientFrame ==
  ASSUME Client
  PROVE  /\ UNCHANGED <<backend, bg, handler, direct, tx, toDev, toHost, dev>>
         /\ \/ UNCHANGED count
            \/ count' = [count EXCEPT !.commands = @ + 1]
            \/ count' = [count EXCEPT !.ids = @ + 1]
<1>1. CASE \E cmd \in COMMANDS : \E region \in IF Regional(cmd) THEN REGIONS ELSE {NoRegion} :
             Start(cmd, region)
  BY <1>1 DEF Start, fixed, link
<1>2. CASE Arm \/ Enqueue \/ AskReset
  BY <1>2 DEF Arm, Enqueue, AskReset, fixed, link
<1>3. CASE Poll \/ IdlePoll \/ Disconnect \/ Join \/ Drain \/ GiveUpReset
  BY <1>3 DEF Poll, IdlePoll, Disconnect, Join, Drain, GiveUpReset, fixed, link
<1> QED BY <1>1, <1>2, <1>3 DEF Client

\* The client's thread has no part in the link (send_host_request, reset).
LEMMA ClientLink ==
  ASSUME ThreadInv, LinkInv, Client
  PROVE  ThreadInv' /\ LinkInv'
<1>1. /\ UNCHANGED <<backend, bg, handler, tx, toDev, toHost, dev>>
      /\ \/ UNCHANGED count
         \/ count' = [count EXCEPT !.commands = @ + 1]
         \/ count' = [count EXCEPT !.ids = @ + 1]
  BY ClientFrame
<1>2. /\ DOMAIN count' = DOMAIN count /\ count'.faults = count.faults /\ count'.botched = count.botched
      /\ count.faults \in Nat
  BY <1>1 DEF LinkInv, Shaped
<1>3. ThreadInv'
  BY <1>1 DEF ThreadInv, Resetting
<1>4. (Resetting => Resetting') /\ (Past => Past')
  BY <1>1 DEF Resetting, Past
<1>5. LinkInv'
  BY <1>1, <1>2, <1>4, StillKeeps
<1> QED BY <1>3, <1>5

\* The commands count requests only.
LEMMA CommandCount ==
  ASSUME Command
  PROVE  UNCHANGED count \/ count' = [count EXCEPT !.ids = @ + 1]
BY DEF Command, FpgaReset, SimReset

\* A command is taken (handle_command, handle_reset_command).
LEMMA CommandLink ==
  ASSUME CommandsInv, ThreadInv, LinkInv, Command
  PROVE  ThreadInv' /\ LinkInv'
<1>1. PICK c : c = Head(commands)
  OBVIOUS
<1>2. c.type = "send" => ~SysReset(c.req)
  <2>1. commands # << >>
    BY DEF Command
  <2>2. c = commands[1] /\ 1 \in 1 .. Len(commands)
    BY <1>1, <2>1, TailSeq DEF CommandsInv, IsSeq
  <2> QED BY <2>2 DEF CommandsInv, Sent
<1>3. UNCHANGED backend /\ bg.at = "command" /\ ~Resetting /\ ~Past
  BY DEF Command, fixed, ThreadInv, Resetting, Past
<1>4. /\ DOMAIN count' = DOMAIN count /\ count'.faults = count.faults /\ count.faults \in Nat
      /\ count'.botched = count.botched
  BY CommandCount DEF LinkInv, Shaped
<1>5. Proceed => ThreadInv' /\ ~Resetting' /\ ~Past'
  BY <1>3, ProceedKeeps DEF ThreadInv, Past
<1>6. ASSUME UNCHANGED <<handler, tx, toDev, toHost, dev>> PROVE LinkInv'
  BY <1>3, <1>4, <1>6, StillKeeps
<1>7. CASE c.type = "send" /\ (LocalCommand(c.req) \/ RtlCommand(c.req) \/ SimCommand(c.req))
           /\ UNCHANGED <<link, dev>>
  <2>1. Proceed
    BY <1>7 DEF LocalCommand, RtlCommand, SimCommand
  <2>2. UNCHANGED <<tx, toDev, toHost, dev>>
    BY <1>7 DEF link
  <2>3. \/ UNCHANGED handler
        \/ handler.outgoing_request = None /\ handler' = SendRequest(handler, c.req)
    BY <1>7 DEF LocalCommand, RtlCommand, SimCommand, Sendable
  <2>4. CASE handler.outgoing_request = None /\ handler' = SendRequest(handler, c.req)
    BY <1>2, <1>3, <1>4, <1>5, <1>7, <2>1, <2>2, <2>4, SendLink
  <2> QED BY <1>5, <1>6, <2>1, <2>2, <2>3, <2>4
<1>8. CASE FpgaReset(c.req)
  <2> DEFINE r == [c.req EXCEPT !.id = count.ids + 1]
  <2>1. CASE Sendable(handler, r)
    <3>1. /\ handler.outgoing_request = None /\ handler' = SendRequest(handler, r)
          /\ bg' = [at |-> "timeout",
                    resetting |-> IF r.value = RESET_CPU THEN "cpu" ELSE "system"]
          /\ UNCHANGED <<tx, toDev, toHost, dev>> /\ backend = "fpga"
      BY <1>8, <2>1 DEF FpgaReset, Sendable, link
    <3>2. ThreadInv' /\ ~Past'
      BY <1>3, <3>1 DEF ThreadInv, Past, Resetting
    <3>3. SysReset(r) => Resetting'
      BY <3>1 DEF SysReset, Resetting, RESET_SYSTEM, RESET_CPU
    <3> QED BY <1>3, <1>4, <3>1, <3>2, <3>3, SendLink
  <2>2. CASE ~Sendable(handler, r)
    <3>1. ResetOver(FALSE) /\ UNCHANGED <<handler, tx, toDev, toHost, dev>>
      BY <1>8, <2>2 DEF FpgaReset, link
    <3> QED BY <1>3, <1>6, <3>1, ResetOverKeeps
  <2> QED BY <2>1, <2>2
<1>9. CASE SimReset
  <2>1. /\ handler' = NewHandler /\ tx' = << >> /\ toDev' = << >> /\ toHost' = << >>
        /\ dev' = Booting /\ Proceed /\ UNCHANGED count
    BY <1>9 DEF SimReset
  <2>2. /\ dev'.request = None /\ DOMAIN dev' = DOMAIN dev
        /\ dev'.cpu_wait_resp \in BOOLEAN /\ dev'.booting \in BOOLEAN
    BY <2>1 DEF Booting, LinkInv, Shaped
  <2> QED BY <1>3, <1>5, <2>1, <2>2, CleanKeeps
<1>10. CASE bg' = [bg EXCEPT !.at = "ended"] /\ UNCHANGED <<handler, link, dev>>
  <2>1. ThreadInv'
    BY <1>3, <1>10 DEF ThreadInv, Resetting
  <2> QED BY <1>6, <1>10, <2>1 DEF link
<1> QED BY <1>1, <1>7, <1>8, <1>9, <1>10 DEF Command

\* The steps of a pass that move nothing (check_request_timeout and the ends of passes).
LEMMA QuietLink ==
  ASSUME ThreadInv, LinkInv, NoCommand \/ SimTimeOut \/ NoTimeOut \/ SimNoResponse \/ SimulationError
  PROVE  ThreadInv' /\ LinkInv'
<1>1. UNCHANGED <<backend, handler, tx, toDev, toHost, dev>>
  BY DEF NoCommand, SimTimeOut, NoTimeOut, SimNoResponse, SimulationError, fixed, link
<1>2. UNCHANGED count \/ count' = [count EXCEPT !.faults = @ + 1]
  BY DEF NoCommand, SimTimeOut, NoTimeOut, SimNoResponse, SimulationError, Fault
<1>3. /\ DOMAIN count' = DOMAIN count /\ count'.faults \in Nat /\ count'.faults >= count.faults
      /\ count'.botched = count.botched
  BY <1>2 DEF LinkInv, Shaped
<1>4. ThreadInv' /\ (Resetting => Resetting') /\ (Past => Past')
  <2>1. CASE SimulationError
    <3>1. ~Resetting /\ bg.resetting = "no" /\ bg' = [bg EXCEPT !.at = "ended"]
      BY <2>1 DEF SimulationError, ThreadInv, Resetting
    <3> QED BY <1>1, <3>1 DEF ThreadInv, Past, Resetting
  <2>2. CASE NoCommand \/ SimTimeOut \/ NoTimeOut \/ SimNoResponse
    <3>1. /\ Proceed
          /\ bg.at \in (IF backend = "fpga" THEN {"command", "timeout", "link"}
                        ELSE {"command", "timeout", "link", "response"})
      BY <2>2 DEF NoCommand, SimTimeOut, NoTimeOut, SimNoResponse, ThreadInv
    <3>2. ThreadInv' /\ Resetting' = Resetting
      BY <1>1, <3>1, ProceedKeeps
    <3>3. ~Past
      BY <3>1 DEF Past, ThreadInv, Resetting
    <3> QED BY <3>2, <3>3
  <2> QED BY <2>1, <2>2
<1>5. LinkInv'
  BY <1>1, <1>3, <1>4, StillKeeps
<1> QED BY <1>4, <1>5

\* A request has expired on the FPGA: what is left of the link is a part of what was there
\* (reset_host_bus, drain_port).
LEMMA FpgaTimeOutLink ==
  ASSUME ThreadInv, LinkInv, FpgaTimeOut
  PROVE  ThreadInv' /\ LinkInv'
<1>1. /\ UNCHANGED <<backend, toDev, dev>> /\ backend = "fpga" /\ bg.at = "timeout" /\ ~Past
      /\ tx' = << >> /\ handler' = NewHandler /\ count' = [count EXCEPT !.faults = @ + 1]
  BY DEF FpgaTimeOut, fixed, Fault, Past
<1>2. PassDone \/ ResetOver(FALSE)
  BY DEF FpgaTimeOut
<1>3. ThreadInv'
  BY <1>1, <1>2, PassDoneKeeps, ResetOverKeeps
<1>4. PICK n \in 0 .. Len(toHost) : toHost' = SubSeq(toHost, n + 1, Len(toHost))
  BY DEF FpgaTimeOut
<1>5. PICK u : u = SubSeq(toHost, n + 1, Len(toHost))
  OBVIOUS
<1>6. FromTarget(u)
  <2>1. /\ IsSeq(toHost) /\ Len(toHost) \in Nat
        /\ \A i \in 1 .. Len(toHost) : toHost[i].type \in {"cpu_req", "host_resp"}
    BY DEF LinkInv, Shaped, FromTarget, IsSeq
  <2>2. /\ IsSeq(u) /\ Len(u) = Len(toHost) + 1 - (n + 1)
        /\ \A i \in 1 .. Len(toHost) + 1 - (n + 1) : u[i] = toHost[n + 1 + i - 1]
    BY <1>5, <2>1, SubSeqSeq
  <2>3. \A i \in 1 .. Len(u) : n + 1 + i - 1 \in 1 .. Len(toHost) /\ u[i] = toHost[n + 1 + i - 1]
    BY <2>1, <2>2
  <2> QED BY <2>1, <2>2, <2>3 DEF FromTarget
<1>7. /\ Has(u, "cpu_req") => Has(toHost, "cpu_req")
      /\ AtMostOne(toHost, "cpu_req") => AtMostOne(u, "cpu_req")
  BY <1>5, SplitHas DEF LinkInv, Shaped, FromTarget
<1>8. /\ IsHandler(NewHandler) /\ NewHandler.outgoing_request = None
      /\ NewHandler.incoming_request = None /\ NewHandler.accepted_request = None
  BY DEF NewHandler, IsHandler
<1>9. /\ DOMAIN count' = DOMAIN count /\ count'.faults = count.faults + 1 /\ count'.botched = count.botched
      /\ count'.faults \in Nat /\ ~InTime'
  BY <1>1 DEF LinkInv, Shaped, InTime
<1>10. Shaped'
  BY <1>1, <1>4, <1>5, <1>6, <1>8, <1>9, EmptySeq DEF LinkInv, Shaped
<1>11. ASSUME ~count'.botched PROVE ResetLast' /\ CpuAccess'
  <2>1. ResetLast /\ CpuAccess
    BY <1>9, <1>11 DEF LinkInv
  <2>2. /\ ~SysReset(dev.request) /\ \A i \in 1 .. Len(toDev) : ~IsReset(toDev[i])
    BY <1>1, <2>1 DEF ResetLast
  <2>3. ~SysReset(None)
    BY DEF SysReset, None, Request, RESET_SYSTEM
  <2>4. ResetLast'
    BY <1>1, <1>8, <2>2, <2>3, EmptySeq DEF ResetLast
  <2>5. OneAccess(handler, tx, toDev, toHost) /\ (HasAccess(handler, tx, toDev, toHost) => dev.cpu_wait_resp)
    BY <1>1, <2>1 DEF CpuAccess, Restarted
  <2>6. /\ OneAccess(NewHandler, << >>, toDev, u)
        /\ HasAccess(NewHandler, << >>, toDev, u) => HasAccess(handler, tx, toDev, toHost)
    BY <1>7, <1>8, <2>5, EmptySeq DEF OneAccess, HasAccess
  <2>7. CpuAccess'
    BY <1>1, <1>4, <1>5, <2>5, <2>6 DEF CpuAccess
  <2> QED BY <2>4, <2>7
<1>12. LinkInv'
  BY <1>1, <1>9, <1>10, <1>11 DEF LinkInv
<1> QED BY <1>3, <1>12

\* A packet arrives (drain_rx_buffer_to_handler).
LEMMA RxPacketLink ==
  ASSUME ThreadInv, LinkInv, RxPacket
  PROVE  ThreadInv' /\ LinkInv'
<1>1. /\ UNCHANGED <<backend, bg, tx, toDev, dev, count>>
      /\ toHost # << >> /\ CanTake(handler, Head(toHost))
      /\ handler' = FinalizeRx(handler, Head(toHost)) /\ toHost' = Tail(toHost)
  BY DEF RxPacket, fixed
<1>2. ThreadInv' /\ Resetting' = Resetting /\ Past' = Past /\ InTime' = InTime
  BY <1>1 DEF ThreadInv, Resetting, Past, InTime
<1>3. IsHandler(handler) /\ FromTarget(toHost)
  BY DEF LinkInv, Shaped
<1>4. PICK g : g = FinalizeRx(handler, Head(toHost))
  OBVIOUS
<1>5. /\ IsHandler(g) /\ g.outgoing_request = handler.outgoing_request /\ g.tx_started = handler.tx_started
      /\ OneAccess(handler, tx, toDev, toHost) =>
           /\ OneAccess(g, tx, toDev, Tail(toHost))
           /\ HasAccess(g, tx, toDev, Tail(toHost)) => HasAccess(handler, tx, toDev, toHost)
      /\ \A q : OneRequest(handler, tx, toDev, toHost, q) => OneRequest(g, tx, toDev, Tail(toHost), q)
  BY <1>1, <1>3, <1>4, TakeOp
<1>6. Shaped'
  BY <1>1, <1>3, <1>4, <1>5, FirstFromTarget DEF LinkInv, Shaped
<1>7. ~count'.botched => ResetLast' /\ CpuAccess'
  BY <1>1, <1>2, <1>4, <1>5 DEF LinkInv, ResetLast, CpuAccess, Restarted
<1>8. LeftOver => LeftOver'
  <2>1. SUFFICES ASSUME LeftOver PROVE LeftOver'
    OBVIOUS
  <2>2. PICK v : v = Tail(toHost)
    OBVIOUS
  <2>3. /\ Len(toHost) \in Nat /\ Len(toHost) >= 1 /\ Len(v) = Len(toHost) - 1 /\ Head(toHost) = toHost[1]
        /\ \A i \in 1 .. Len(toHost) - 1 : v[i] = toHost[i + 1]
    BY <1>1, <1>3, <2>2, TailSeq DEF FromTarget, IsSeq
  <2>4. /\ \A i \in 1 .. Len(v) : i + 1 \in 1 .. Len(toHost) /\ v[i] = toHost[i + 1]
        /\ 1 \in 1 .. Len(toHost)
    BY <2>3
  <2>5. \A i \in 1 .. Len(v) : v[i].type = "host_resp" => v[i].req.write = FALSE
    BY <2>1, <2>4 DEF LeftOver
  <2>6. g.outgoing_response = NoResponse
    <3>1. CASE IsResponse(Head(toHost))
      <4>1. Head(toHost).req.write = FALSE
        BY <2>1, <2>3, <2>4, <3>1 DEF LeftOver, IsResponse
      <4>2. handler.outgoing_request.write = TRUE /\ handler.outgoing_response = NoResponse
        BY <2>1 DEF LeftOver
      <4>3. handler.outgoing_request # None
        BY <4>2 DEF None, Request
      <4>4. ~SameMeta(handler.outgoing_request, Head(toHost).req)
        BY <4>1, <4>2 DEF SameMeta
      <4> QED BY <1>4, <3>1, <4>2, <4>3, <4>4 DEF FinalizeRx
    <3>2. CASE ~IsResponse(Head(toHost))
      BY <1>3, <1>4, <2>1, <3>2 DEF FinalizeRx, LeftOver, IsHandler
    <3> QED BY <3>1, <3>2
  <2> QED BY <1>1, <1>2, <1>4, <1>5, <2>1, <2>2, <2>5, <2>6 DEF LeftOver
<1>9. HostRequest => HostRequest'
  BY <1>1, <1>2, <1>4, <1>5, <1>8 DEF HostRequest
<1>10. LinkInv'
  BY <1>1, <1>2, <1>6, <1>7, <1>9 DEF LinkInv
<1> QED BY <1>2, <1>10

\* The transmit buffer is filled and the port takes some of it
\* (fill_tx_buffer_from_handler, drain_tx_buffer).
LEMMA TxPacketsLink ==
  ASSUME ThreadInv, LinkInv, TxPackets
  PROVE  ThreadInv' /\ LinkInv'
<1>1. PICK h, e, f, s, full :
           /\ h = AfterTx(handler) /\ e = Encoded(handler) /\ f = Encoded(h) /\ s = tx \o e /\ full = s \o f
  OBVIOUS
<1>2. /\ UNCHANGED <<backend, dev, toHost>> /\ backend = "fpga" /\ bg.at = "link" /\ Proceed
      /\ handler' = AfterTx(h)
  BY <1>1 DEF TxPackets, fixed
<1>3. PICK n \in 0 .. Len(full) :
           toDev' = toDev \o SubSeq(full, 1, n) /\ tx' = SubSeq(full, n + 1, Len(full))
  BY <1>1 DEF TxPackets
<1>4. PICK a, b, g, v : /\ a = SubSeq(full, 1, n) /\ b = SubSeq(full, n + 1, Len(full))
                        /\ g = AfterTx(h) /\ v = toDev \o a
  OBVIOUS
<1>5. IsHandler(handler) /\ IsSeq(tx) /\ IsSeq(toDev) /\ FromTarget(toHost)
  BY DEF LinkInv, Shaped
<1>6. /\ IsHandler(h) /\ h.outgoing_request = handler.outgoing_request /\ IsSeq(s)
      /\ OneAccess(handler, tx, toDev, toHost) =>
           /\ OneAccess(h, s, toDev, toHost)
           /\ HasAccess(h, s, toDev, toHost) => HasAccess(handler, tx, toDev, toHost)
      /\ \A q : OneRequest(handler, tx, toDev, toHost, q) => OneRequest(h, s, toDev, toHost, q)
  BY <1>1, <1>5, StartOp
<1>7. /\ IsHandler(g) /\ g.outgoing_request = h.outgoing_request /\ IsSeq(full)
      /\ OneAccess(h, s, toDev, toHost) =>
           /\ OneAccess(g, full, toDev, toHost)
           /\ HasAccess(g, full, toDev, toHost) => HasAccess(h, s, toDev, toHost)
      /\ \A q : OneRequest(h, s, toDev, toHost, q) => OneRequest(g, full, toDev, toHost, q)
  BY <1>1, <1>4, <1>6, StartOp
<1>8. /\ IsSeq(a) /\ IsSeq(b) /\ IsSeq(v)
      /\ OneAccess(g, full, toDev, toHost) =>
           /\ OneAccess(g, b, v, toHost)
           /\ HasAccess(g, b, v, toHost) => HasAccess(g, full, toDev, toHost)
      /\ \A q : OneRequest(g, full, toDev, toHost, q) => OneRequest(g, b, v, toHost, q)
  <2>1. Parted(full, a, b)
    BY <1>4, <1>7, SplitParted
  <2>2. v = toDev \o a
    BY <1>4
  <2>3. IsSeq(a)
    BY <2>1 DEF Parted
  <2> QED BY <1>5, <2>1, <2>2, <2>3, SplitOp
<1>9. /\ handler' = g /\ toDev' = v /\ tx' = b
  BY <1>2, <1>3, <1>4
<1>10. /\ DOMAIN count' = DOMAIN count /\ count'.faults \in Nat /\ count'.botched = count.botched
       /\ InTime' => InTime
  <2>1. UNCHANGED count \/ count' = [count EXCEPT !.faults = @ + 1]
    BY DEF TxPackets, Fault
  <2> QED BY <2>1 DEF LinkInv, Shaped, InTime
<1>11. ThreadInv' /\ Resetting' = Resetting /\ ~Past /\ (Resetting => Past')
  <2>1. ThreadInv' /\ Resetting' = Resetting /\ bg'.at = "response"
    BY <1>2, ProceedKeeps DEF Order
  <2> QED BY <1>2, <2>1 DEF Past
<1>12. Shaped'
  BY <1>2, <1>5, <1>7, <1>8, <1>9, <1>10 DEF LinkInv, Shaped
<1>13. ASSUME ~count'.botched PROVE ResetLast'
  <2>1. ResetLast
    BY <1>10, <1>13 DEF LinkInv
  <2>2. /\ ~SysReset(dev.request) /\ \A i \in 1 .. Len(toDev) : ~IsReset(toDev[i])
        /\ \A i \in 1 .. Len(tx) : ~IsReset(tx[i])
        /\ SysReset(handler.outgoing_request) => Resetting
    BY <1>11, <2>1 DEF ResetLast
  <2>3. /\ IsSeq(e) /\ Len(e) <= 1 /\ IsSeq(f) /\ Len(f) <= 1
        /\ \A i \in 1 .. Len(e) : e[i].type = "host_req" => e[i].req = handler.outgoing_request
        /\ \A i \in 1 .. Len(f) : f[i].type = "host_req" => f[i].req = handler.outgoing_request
    BY <1>1, <1>5, <1>6, EncodedHas
  <2>4. Has(e, "host_req") => Len(f) = 0
    <3>1. SUFFICES ASSUME Has(e, "host_req") PROVE Len(f) = 0
      OBVIOUS
    <3>2. /\ ~(handler.accepted_request # None /\ handler.pending_response)
          /\ handler.outgoing_request # None /\ ~handler.tx_started
      BY <1>1, <1>5, <3>1, EncodedHas
    <3>3. h = [handler EXCEPT !.tx_started = TRUE]
      BY <1>1, <3>2 DEF AfterTx, HasTx, StartTx
    <3>4. ~HasTx(h)
      BY <1>5, <3>2, <3>3 DEF HasTx, IsHandler
    <3> QED BY <1>1, <3>4, EmptySeq DEF Encoded
  <2>5. /\ Len(s) = Len(tx) + Len(e) /\ Len(tx) \in Nat /\ Len(e) \in Nat
        /\ \A i \in 1 .. Len(tx) : s[i] = tx[i]
        /\ \A i \in 1 .. Len(e) : s[Len(tx) + i] = e[i]
    <3>1. IsSeq(tx) /\ IsSeq(e) /\ Len(tx) \in Nat /\ Len(e) \in Nat /\ s = tx \o e
      BY <1>1, <1>5, <2>3 DEF IsSeq
    <3> QED BY <3>1, ConcatSeq
  <2>6. /\ Len(full) = Len(s) + Len(f) /\ Len(s) \in Nat /\ Len(f) \in Nat
        /\ \A i \in 1 .. Len(s) : full[i] = s[i]
        /\ \A i \in 1 .. Len(f) : full[Len(s) + i] = f[i]
    <3>1. IsSeq(s) /\ IsSeq(f) /\ Len(s) \in Nat /\ Len(f) \in Nat /\ full = s \o f
      BY <1>1, <1>6, <2>3 DEF IsSeq
    <3> QED BY <3>1, ConcatSeq
  <2>13. /\ Len(tx) \in Nat /\ Len(e) \in Nat /\ Len(e) <= 1 /\ Len(s) = Len(tx) + Len(e)
         /\ Len(f) \in Nat /\ Len(f) <= 1 /\ Len(full) = Len(s) + Len(f)
    BY <2>3, <2>5, <2>6
  <2>7. ASSUME NEW k \in 1 .. Len(full), IsReset(full[k])
        PROVE  k = Len(full) /\ SysReset(handler.outgoing_request)
    <3>1. CASE k \in 1 .. Len(tx)
      <4>1. k \in 1 .. Len(s) /\ full[k] = tx[k]
        BY <2>5, <2>6, <3>1
      <4> QED BY <2>2, <2>7, <3>1, <4>1
    <3>2. CASE k = Len(tx) + 1 /\ Len(e) = 1
      <4>1. k \in 1 .. Len(s) /\ k = Len(s)
        BY <2>13, <3>2
      <4>2. full[k] = e[1]
        BY <2>5, <2>6, <3>2, <4>1
      <4>3. Has(e, "host_req") /\ SysReset(handler.outgoing_request)
        BY <2>3, <2>7, <3>2, <4>2 DEF Has, IsReset
      <4>4. Len(f) = 0
        BY <2>4, <4>3
      <4> QED BY <2>13, <4>1, <4>3, <4>4
    <3>3. CASE k = Len(s) + 1 /\ Len(f) = 1
      <4>1. full[k] = f[1]
        BY <2>6, <3>3
      <4>2. SysReset(handler.outgoing_request)
        BY <2>3, <2>7, <3>3, <4>1 DEF IsReset
      <4> QED BY <2>13, <3>3, <4>2
    <3>4. (Len(e) = 0 \/ Len(e) = 1) /\ (Len(f) = 0 \/ Len(f) = 1)
      <4>1. \A m \in Nat : m <= 1 => m = 0 \/ m = 1
        OBVIOUS
      <4>2. Len(e) \in Nat /\ Len(e) <= 1
        BY <2>13
      <4>3. Len(f) \in Nat /\ Len(f) <= 1
        BY <2>13
      <4> QED BY <4>1, <4>2, <4>3
    <3>5. k \in 1 .. Len(tx) \/ (k = Len(tx) + 1 /\ Len(e) = 1) \/ (k = Len(s) + 1 /\ Len(f) = 1)
      <4>1. k \in Int /\ 1 <= k /\ k <= Len(tx) + Len(e) + Len(f)
        BY <2>13
      <4> QED BY <2>13, <3>4, <4>1
    <3> QED BY <3>1, <3>2, <3>3, <3>5
  <2>8. /\ Len(a) = n /\ Len(b) = Len(full) - n /\ n \in Nat /\ Len(full) \in Nat /\ n <= Len(full)
        /\ \A i \in 1 .. n : a[i] = full[i]
        /\ \A i \in 1 .. Len(full) - n : b[i] = full[n + i]
    <3>1. /\ Len(full) \in Nat /\ n \in Nat /\ n <= Len(full) /\ 1 \in Nat /\ 1 <= 1 /\ 1 <= n + 1
          /\ n + 1 \in Nat /\ n + 1 <= Len(full) + 1 /\ n + 1 - 1 = n
          /\ Len(full) + 1 - (n + 1) = Len(full) - n
      BY <1>7 DEF IsSeq
    <3>2. Len(a) = n + 1 - 1 /\ \A i \in 1 .. n + 1 - 1 : a[i] = full[1 + i - 1]
      BY <1>4, <1>7, <3>1, SubSeqSeq
    <3>3. /\ Len(b) = Len(full) + 1 - (n + 1)
          /\ \A i \in 1 .. Len(full) + 1 - (n + 1) : b[i] = full[n + 1 + i - 1]
      BY <1>4, <1>7, <3>1, SubSeqSeq
    <3>4. Len(a) = n /\ \A i \in 1 .. n : a[i] = full[i]
      BY <3>1, <3>2
    <3>5. Len(b) = Len(full) - n /\ \A i \in 1 .. Len(full) - n : b[i] = full[n + i]
      <4>1. \A i \in 1 .. Len(full) - n : n + 1 + i - 1 = n + i
        BY <3>1
      <4> QED BY <3>1, <3>3, <4>1
    <3> QED BY <3>1, <3>4, <3>5
  <2>9. /\ Len(v) = Len(toDev) + n /\ Len(toDev) \in Nat
        /\ \A i \in 1 .. Len(toDev) : v[i] = toDev[i]
        /\ \A i \in 1 .. n : v[Len(toDev) + i] = a[i]
    <3>1. Len(a) = n /\ IsSeq(toDev) /\ IsSeq(a) /\ Len(toDev) \in Nat
      BY <1>5, <1>8, <2>8 DEF IsSeq
    <3>2. /\ Len(v) = Len(toDev) + Len(a)
          /\ \A i \in 1 .. Len(toDev) : v[i] = toDev[i]
          /\ \A i \in 1 .. Len(a) : v[Len(toDev) + i] = a[i]
      BY <1>4, <3>1, ConcatSeq
    <3> QED BY <3>1, <3>2
  <2>11. ASSUME NEW i \in 1 .. Len(v), IsReset(v[i])
         PROVE  SysReset(handler.outgoing_request) /\ i = Len(v) /\ b = << >>
    <3>1. i \notin 1 .. Len(toDev)
      BY <2>2, <2>9, <2>11
    <3>2. i - Len(toDev) \in 1 .. n /\ Len(toDev) + (i - Len(toDev)) = i
      BY <2>8, <2>9, <3>1
    <3>3. i - Len(toDev) \in 1 .. Len(full) /\ v[i] = full[i - Len(toDev)]
      BY <2>8, <2>9, <3>2
    <3>4. i - Len(toDev) = Len(full) /\ SysReset(handler.outgoing_request)
      BY <2>7, <2>11, <3>3
    <3>5. n = Len(full)
      BY <2>8, <3>2, <3>4
    <3>7. Len(b) = 0 /\ i = Len(v)
      BY <2>8, <2>9, <3>2, <3>4, <3>5
    <3>6. b = << >>
      BY <1>8, <3>7 DEF IsSeq
    <3> QED BY <3>4, <3>6, <3>7
  <2>12. ASSUME NEW i \in 1 .. Len(b), IsReset(b[i])
         PROVE  SysReset(handler.outgoing_request)
    <3>1. n + i \in 1 .. Len(full) /\ b[i] = full[n + i]
      BY <2>8
    <3> QED BY <2>7, <2>12, <3>1
  <2> QED BY <1>2, <1>6, <1>7, <1>9, <1>11, <2>2, <2>11, <2>12 DEF ResetLast
<1>14. ASSUME ~count'.botched PROVE CpuAccess'
  BY <1>2, <1>6, <1>7, <1>8, <1>9, <1>10, <1>11, <1>14 DEF LinkInv, CpuAccess, Restarted
<1>15. HostRequest => HostRequest'
  BY <1>2, <1>6, <1>7, <1>8, <1>9, <1>11 DEF HostRequest, LeftOver
<1>16. LinkInv'
  BY <1>2, <1>10, <1>12, <1>13, <1>14, <1>15 DEF LinkInv
<1> QED BY <1>11, <1>16

\* What an operation of the handler keeps: it is still one, with the same request of the
\* host, and no packet has come into being.
Keeps(h, t, d, u, g, t1, d1, u1) ==
  /\ IsHandler(g) /\ g.outgoing_request = h.outgoing_request
  /\ OneAccess(h, t, d, u) => /\ OneAccess(g, t1, d1, u1)
                              /\ HasAccess(g, t1, d1, u1) => HasAccess(h, t, d, u)
  /\ \A q : OneRequest(h, t, d, u, q) => OneRequest(g, t1, d1, u1, q)

\* What happens in a step of the simulator's link, one thing after the other.
LEMMA SimLinkStep ==
  ASSUME SimLink
  PROVE  \E take, send, ready, h, e, sent, accepted, g, u, v :
           /\ take => toHost # << >> /\ CanTake(handler, Head(toHost))
           /\ h = (IF take THEN FinalizeRx(handler, Head(toHost)) ELSE handler)
           /\ e = Encoded(h)
           /\ sent = (IF send THEN AfterTx(h) ELSE h)
           /\ accepted = (IF HasIncoming(sent) THEN Accept(sent) ELSE sent)
           /\ g = (IF ready THEN Complete(accepted) ELSE accepted)
           /\ u = (IF take THEN Tail(toHost) ELSE toHost)
           /\ v = (IF send THEN toDev \o e ELSE toDev)
           /\ handler' = g /\ toHost' = u /\ toDev' = v
<1> DEFINE H(take) == IF take THEN FinalizeRx(handler, Head(toHost)) ELSE handler
           S(take, send) == IF send THEN AfterTx(H(take)) ELSE H(take)
           A(take, send) == IF HasIncoming(S(take, send)) THEN Accept(S(take, send)) ELSE S(take, send)
<1>1. PICK take \in BOOLEAN, send \in BOOLEAN, ready \in BOOLEAN :
        /\ take => toHost # << >> /\ CanTake(handler, Head(toHost))
        /\ send => HasTx(H(take))
        /\ ready => Completable(A(take, send))
        /\ handler' = (IF ready THEN Complete(A(take, send)) ELSE A(take, send))
        /\ toHost' = (IF take THEN Tail(toHost) ELSE toHost)
        /\ toDev' = (IF send THEN toDev \o Encoded(H(take)) ELSE toDev)
  BY DEF SimLink
<1> WITNESS take, send, ready, H(take), Encoded(H(take)), S(take, send), A(take, send),
            handler', toHost', toDev'
<1> QED BY <1>1, Zenon

\* A step of the simulator's link (handle_host_bus_interface, sim_core.rs).
LEMMA SimLinkLink ==
  ASSUME ThreadInv, LinkInv, SimLink
  PROVE  ThreadInv' /\ LinkInv'
<1>1. /\ UNCHANGED <<backend, tx, dev, count>> /\ backend = "sim" /\ bg.at = "link" /\ Proceed
  BY DEF SimLink, fixed
<1>2. ThreadInv' /\ ~Resetting /\ ~Resetting' /\ ~Past /\ InTime' = InTime /\ ~count.botched
  <2>1. ThreadInv' /\ Resetting' = Resetting /\ ~Resetting
    BY <1>1, ProceedKeeps DEF ThreadInv, Resetting
  <2> QED BY <1>1, <2>1 DEF Past, InTime, LinkInv
<1>3. PICK take, send, ready, h, e, sent, accepted, g, u, v :
        /\ take => toHost # << >> /\ CanTake(handler, Head(toHost))
        /\ h = (IF take THEN FinalizeRx(handler, Head(toHost)) ELSE handler)
        /\ e = Encoded(h)
        /\ sent = (IF send THEN AfterTx(h) ELSE h)
        /\ accepted = (IF HasIncoming(sent) THEN Accept(sent) ELSE sent)
        /\ g = (IF ready THEN Complete(accepted) ELSE accepted)
        /\ u = (IF take THEN Tail(toHost) ELSE toHost)
        /\ v = (IF send THEN toDev \o e ELSE toDev)
        /\ handler' = g /\ toHost' = u /\ toDev' = v
  BY SimLinkStep
<1>4. /\ IsHandler(handler) /\ IsSeq(tx) /\ IsSeq(toDev) /\ FromTarget(toHost)
  BY DEF LinkInv, Shaped
<1>5. Keeps(handler, tx, toDev, toHost, h, tx, toDev, u) /\ FromTarget(u)
  <2>1. CASE take
    BY <1>3, <1>4, <2>1, TakeOp, FirstFromTarget DEF Keeps
  <2>2. CASE ~take
    BY <1>3, <1>4, <2>2 DEF Keeps
  <2> QED BY <2>1, <2>2
<1>6. Keeps(h, tx, toDev, u, sent, tx, v, u) /\ IsSeq(v)
  <2>1. CASE send
    <3>1. IsHandler(h) /\ sent = AfterTx(h) /\ v = toDev \o Encoded(h)
      BY <1>3, <1>5, <2>1 DEF Keeps
    <3>2. /\ IsHandler(sent) /\ sent.outgoing_request = h.outgoing_request /\ IsSeq(v)
          /\ OneAccess(h, toDev, tx, u) =>
               /\ OneAccess(sent, v, tx, u)
               /\ HasAccess(sent, v, tx, u) => HasAccess(h, toDev, tx, u)
          /\ \A q : OneRequest(h, toDev, tx, u, q) => OneRequest(sent, v, tx, u, q)
      BY <1>4, <3>1, StartOp
    <3> QED BY <3>2, Symmetric DEF Keeps
  <2>2. CASE ~send
    BY <1>3, <1>4, <1>5, <2>2 DEF Keeps
  <2> QED BY <2>1, <2>2
<1>7. Keeps(sent, tx, v, u, accepted, tx, v, u)
  BY <1>3, <1>6, AcceptOp DEF Keeps
<1>8. Keeps(accepted, tx, v, u, g, tx, v, u)
  <2>1. CASE ready
    BY <1>3, <1>7, <2>1, CompleteOp DEF Keeps
  <2>2. CASE ~ready
    BY <1>3, <1>7, <2>2 DEF Keeps
  <2> QED BY <2>1, <2>2
<1>9. Keeps(handler, tx, toDev, toHost, g, tx, v, u)
  BY <1>5, <1>6, <1>7, <1>8 DEF Keeps
<1>10. Shaped'
  BY <1>1, <1>3, <1>4, <1>5, <1>6, <1>9 DEF LinkInv, Shaped, Keeps
<1>11. ResetLast /\ CpuAccess /\ HostRequest
  BY <1>1, <1>2 DEF LinkInv
<1>12. ResetLast'
  <2>1. /\ ~SysReset(dev.request) /\ \A i \in 1 .. Len(toDev) : ~IsReset(toDev[i])
        /\ \A i \in 1 .. Len(tx) : ~IsReset(tx[i])
        /\ ~SysReset(handler.outgoing_request)
    BY <1>2, <1>11 DEF ResetLast
  <2>2. \A i \in 1 .. Len(v) : ~IsReset(v[i])
    <3>1. CASE send
      <4>1. /\ IsSeq(e) /\ v = toDev \o e
            /\ \A i \in 1 .. Len(e) : e[i].type = "host_req" => e[i].req = handler.outgoing_request
        BY <1>3, <1>5, <3>1, EncodedHas DEF Keeps
      <4>2. /\ Len(v) = Len(toDev) + Len(e) /\ Len(toDev) \in Nat /\ Len(e) \in Nat
            /\ \A i \in 1 .. Len(toDev) : v[i] = toDev[i]
            /\ \A i \in 1 .. Len(e) : v[Len(toDev) + i] = e[i]
        BY <1>4, <4>1, ConcatSeq DEF IsSeq
      <4>3. SUFFICES ASSUME NEW i \in 1 .. Len(v), i \notin 1 .. Len(toDev) PROVE ~IsReset(v[i])
        BY <2>1, <4>2
      <4>4. i - Len(toDev) \in 1 .. Len(e) /\ Len(toDev) + (i - Len(toDev)) = i
        BY <4>2, <4>3
      <4> QED BY <2>1, <4>1, <4>2, <4>4 DEF IsReset
    <3>2. CASE ~send
      BY <1>3, <2>1, <3>2
    <3> QED BY <3>1, <3>2
  <2> QED BY <1>1, <1>3, <1>9, <2>1, <2>2 DEF ResetLast, Keeps
<1>13. CpuAccess'
  BY <1>1, <1>2, <1>3, <1>9, <1>11 DEF CpuAccess, Restarted, Keeps, Past, Resetting
<1>14. HostRequest'
  BY <1>1, <1>2, <1>3, <1>9, <1>11 DEF HostRequest, LeftOver, Keeps
<1>15. LinkInv'
  BY <1>1, <1>2, <1>10, <1>12, <1>13, <1>14 DEF LinkInv
<1> QED BY <1>2, <1>15

\* The response is taken for the request that is pending (receive_response).
LEMMA ResponseLink ==
  ASSUME ThreadInv, LinkInv, Response
  PROVE  ThreadInv' /\ LinkInv'
<1>1. /\ UNCHANGED <<backend, tx, toDev, toHost, dev, count>> /\ bg.at = "response"
      /\ \/ UNCHANGED handler
         \/ handler' = ReceiveResponse(handler) /\ handler.outgoing_response # NoResponse
      /\ PassDone \/ (ResetOver(TRUE) /\ bg.resetting = "cpu")
  BY DEF Response, fixed, link, Available, HasResponse
<1>2. ThreadInv' /\ Resetting' = Resetting /\ (Past => Past')
  <2>1. CASE PassDone
    <3>1. backend = "fpga" \/ bg.resetting = "no"
      BY DEF ThreadInv
    <3> QED BY <1>1, <2>1, <3>1, PassDoneKeeps DEF Past
  <2>2. CASE ResetOver(TRUE) /\ bg.resetting = "cpu"
    BY <1>1, <2>2, ResetOverKeeps DEF Past, Resetting
  <2> QED BY <1>1, <2>1, <2>2
<1>3. CASE UNCHANGED handler
  <2>1. DOMAIN count' = DOMAIN count /\ count'.faults \in Nat /\ count'.faults >= count.faults
    BY <1>1 DEF LinkInv, Shaped
  <2> QED BY <1>1, <1>2, <1>3, <2>1, StillKeeps
<1>4. CASE handler' = ReceiveResponse(handler) /\ handler.outgoing_response # NoResponse
  <2>1. /\ IsHandler(handler)' /\ handler'.outgoing_request = None /\ handler'.tx_started = FALSE
        /\ handler'.outgoing_response = NoResponse
        /\ handler'.incoming_request = handler.incoming_request
        /\ handler'.accepted_request = handler.accepted_request
    BY <1>4 DEF LinkInv, Shaped, IsHandler, ReceiveResponse
  <2>2. Shaped'
    BY <1>1, <2>1 DEF LinkInv, Shaped
  <2>3. ~SysReset(None)
    BY DEF SysReset, None, Request, RESET_SYSTEM
  <2>4. ~count'.botched => ResetLast' /\ CpuAccess'
    BY <1>1, <1>2, <2>1, <2>3 DEF LinkInv, ResetLast, CpuAccess, OneAccess, HasAccess, Restarted
  <2>5. HostRequest => HostRequest'
    BY <1>1, <1>2, <1>4, <2>1 DEF HostRequest, LeftOver, OneRequest
  <2> QED BY <1>1, <1>2, <2>2, <2>4, <2>5 DEF LinkInv, InTime
<1> QED BY <1>1, <1>3, <1>4

\* The request of the CPU is answered at once (process_cpu_request).
LEMMA FpgaCpuLink ==
  ASSUME ThreadInv, LinkInv, FpgaCpu
  PROVE  ThreadInv' /\ LinkInv'
<1>1. /\ UNCHANGED <<backend, tx, toDev, toHost, dev, count>> /\ bg.at = "response" /\ PassDone
      /\ backend = "fpga"
      /\ UNCHANGED handler \/ (HasIncoming(handler) /\ handler' = Complete(Accept(handler)))
  BY DEF FpgaCpu, fixed, link
<1>2. ThreadInv' /\ Resetting' = Resetting /\ (Past => Past') /\ InTime' = InTime
  BY <1>1, PassDoneKeeps DEF Past, InTime
<1>3. IsHandler(handler)
  BY DEF LinkInv, Shaped
<1>4. PICK h, g : /\ h = (IF HasIncoming(handler) THEN Accept(handler) ELSE handler)
                  /\ g = (IF HasIncoming(handler) THEN Complete(h) ELSE h)
  OBVIOUS
<1>5. CASE UNCHANGED handler
  <2>1. DOMAIN count' = DOMAIN count /\ count'.faults \in Nat /\ count'.faults >= count.faults
    BY <1>1 DEF LinkInv, Shaped
  <2> QED BY <1>1, <1>2, <1>5, <2>1, StillKeeps
<1>6. CASE HasIncoming(handler) /\ handler' = Complete(Accept(handler))
  <2>1. g = Complete(h) /\ handler' = g
    BY <1>4, <1>6
  <2>2. Keeps(handler, tx, toDev, toHost, h, tx, toDev, toHost)
    BY <1>3, <1>4, AcceptOp DEF Keeps
  <2>3. Keeps(h, tx, toDev, toHost, g, tx, toDev, toHost)
    BY <2>1, <2>2, CompleteOp DEF Keeps
  <2>4. Keeps(handler, tx, toDev, toHost, g, tx, toDev, toHost)
    BY <2>2, <2>3 DEF Keeps
  <2>5. Shaped'
    BY <1>1, <2>1, <2>4 DEF LinkInv, Shaped, Keeps
  <2>6. ~count'.botched => ResetLast' /\ CpuAccess'
    BY <1>1, <1>2, <2>1, <2>4 DEF LinkInv, ResetLast, CpuAccess, Restarted, Keeps
  <2>7. HostRequest => HostRequest'
    <3>1. LeftOver => Past
      BY <1>1 DEF LeftOver, Past
    <3> QED BY <1>1, <1>2, <2>1, <2>4, <3>1 DEF HostRequest, Keeps
  <2> QED BY <1>1, <1>2, <2>5, <2>6, <2>7 DEF LinkInv
<1> QED BY <1>1, <1>5, <1>6

\* An error of the port, before or after the transmit buffer is filled. A reset of the
\* system that ends so may leave its packet in the handler.
LEMMA PortErrorLink ==
  ASSUME ThreadInv, LinkInv, PortError("error") \/ PortError("fatal")
  PROVE  ThreadInv' /\ LinkInv'
<1>1. /\ UNCHANGED <<backend, toDev, toHost, dev>> /\ backend = "fpga" /\ bg.at = "link" /\ ~Past
      /\ \/ UNCHANGED <<handler, tx>>
         \/ handler' = AfterTx(handler) /\ tx' = tx \o Encoded(handler)
      /\ count' = [count EXCEPT !.faults = @ + 1, !.botched = @ \/ bg.resetting = "system"]
  BY DEF PortError, fixed, Past
<1>2. \/ ResetOver(FALSE)
      \/ /\ bg.resetting = "no"
         /\ bg' \in {[bg EXCEPT !.at = "ended"], [bg EXCEPT !.at = "command"]}
  BY DEF PortError
<1>3. ThreadInv'
  <2>1. CASE bg.resetting = "no" /\ bg' \in {[bg EXCEPT !.at = "ended"], [bg EXCEPT !.at = "command"]}
    BY <1>1, <2>1 DEF ThreadInv, Resetting
  <2> QED BY <1>1, <1>2, <2>1, ResetOverKeeps
<1>4. /\ DOMAIN count' = DOMAIN count /\ count'.faults = count.faults + 1 /\ count'.faults \in Nat
      /\ count'.botched \in BOOLEAN /\ (~count'.botched => ~count.botched /\ ~Resetting) /\ ~InTime'
  <2>1. /\ DOMAIN count' = DOMAIN count /\ count'.faults = count.faults + 1 /\ count.faults \in Nat
    BY <1>1 DEF LinkInv, Shaped
  <2>2. count'.botched = (count.botched \/ bg.resetting = "system") /\ count.botched \in BOOLEAN
    BY <1>1 DEF LinkInv, Shaped
  <2>3. count'.faults \in Nat /\ ~InTime'
    BY <2>1 DEF InTime
  <2>4. count'.botched \in BOOLEAN
    BY <2>2
  <2>5. ~count'.botched => ~count.botched /\ ~Resetting
    BY <2>2 DEF Resetting
  <2> QED BY <2>1, <2>3, <2>4, <2>5
<1>5. /\ IsHandler(handler) /\ IsSeq(tx) /\ IsSeq(toDev)
  BY DEF LinkInv, Shaped
<1>6. Keeps(handler, tx, toDev, toHost, handler', tx', toDev, toHost) /\ IsSeq(tx')
  <2>1. CASE UNCHANGED <<handler, tx>>
    BY <1>5, <2>1 DEF Keeps
  <2>2. CASE handler' = AfterTx(handler) /\ tx' = tx \o Encoded(handler)
    <3>1. PICK g, t : g = AfterTx(handler) /\ t = tx \o Encoded(handler)
      OBVIOUS
    <3>2. Keeps(handler, tx, toDev, toHost, g, t, toDev, toHost) /\ IsSeq(t)
      BY <1>5, <3>1, StartOp DEF Keeps
    <3> QED BY <2>2, <3>1, <3>2
  <2> QED BY <1>1, <2>1, <2>2
<1>7. Shaped'
  BY <1>1, <1>4, <1>5, <1>6 DEF LinkInv, Shaped, Keeps
<1>8. ASSUME ~count'.botched PROVE ResetLast' /\ CpuAccess'
  <2>1. ResetLast /\ CpuAccess /\ ~Resetting
    BY <1>4, <1>8 DEF LinkInv
  <2>2. /\ ~SysReset(dev.request) /\ \A i \in 1 .. Len(toDev) : ~IsReset(toDev[i])
        /\ \A i \in 1 .. Len(tx) : ~IsReset(tx[i])
        /\ ~SysReset(handler.outgoing_request)
    BY <1>1, <2>1 DEF ResetLast
  <2>3. \A i \in 1 .. Len(tx') : ~IsReset(tx'[i])
    <3>1. CASE tx' = tx
      BY <2>2, <3>1
    <3>2. CASE tx' = tx \o Encoded(handler)
      <4>1. PICK e, t : e = Encoded(handler) /\ t = tx \o e
        OBVIOUS
      <4>2. /\ IsSeq(e)
            /\ \A i \in 1 .. Len(e) : e[i].type = "host_req" => e[i].req = handler.outgoing_request
        BY <1>5, <4>1, EncodedHas
      <4>3. /\ Len(t) = Len(tx) + Len(e) /\ Len(tx) \in Nat /\ Len(e) \in Nat
            /\ \A i \in 1 .. Len(tx) : t[i] = tx[i]
            /\ \A i \in 1 .. Len(e) : t[Len(tx) + i] = e[i]
        BY <1>5, <4>1, <4>2, ConcatSeq DEF IsSeq
      <4>4. ASSUME NEW i \in 1 .. Len(t), i \notin 1 .. Len(tx) PROVE ~IsReset(t[i])
        <5>1. i - Len(tx) \in 1 .. Len(e) /\ Len(tx) + (i - Len(tx)) = i
          BY <4>3, <4>4
        <5>2. t[i] = e[i - Len(tx)]
          BY <4>3, <5>1
        <5> QED BY <2>2, <4>2, <5>1, <5>2 DEF IsReset
      <4>5. \A i \in 1 .. Len(t) : ~IsReset(t[i])
        BY <2>2, <4>3, <4>4
      <4> QED BY <3>2, <4>1, <4>5
    <3> QED BY <1>1, <3>1, <3>2
  <2>4. ResetLast'
    BY <1>1, <1>6, <2>2, <2>3 DEF ResetLast, Keeps
  <2>5. CpuAccess'
    BY <1>1, <1>6, <2>1 DEF CpuAccess, Restarted, Keeps
  <2> QED BY <2>4, <2>5
<1>9. LinkInv'
  BY <1>1, <1>4, <1>7, <1>8 DEF LinkInv
<1> QED BY <1>3, <1>9

\* The end of a reset of the system: nothing is left (handle_reset_command).
LEMMA SettleLink ==
  ASSUME ThreadInv, LinkInv, Settle
  PROVE  ThreadInv' /\ LinkInv'
<1>1. /\ UNCHANGED <<backend, count, dev>> /\ handler' = NewHandler /\ dev.request = None
      /\ tx' = << >> /\ toDev' = << >> /\ toHost' = << >> /\ ResetOver(TRUE)
  BY DEF Settle, fixed
<1>2. /\ dev'.request = None /\ DOMAIN dev' = DOMAIN dev
      /\ dev'.cpu_wait_resp \in BOOLEAN /\ dev'.booting \in BOOLEAN
  BY <1>1 DEF LinkInv, Shaped
<1> QED BY <1>1, <1>2, CleanKeeps, ResetOverKeeps

\* The program asks for the host's memory (host_bus_interface.sv, one access at a time).
LEMMA CpuIssueLink ==
  ASSUME ThreadInv, LinkInv, CpuIssue
  PROVE  ThreadInv' /\ LinkInv'
<1>1. PICK x : /\ x = Packet("cpu_req", Request(count.cpu + 1, FALSE, RTL_END, 4, 1, 0), << >>)
               /\ toHost' = Append(toHost, x)
  BY DEF CpuIssue
<1>2. /\ UNCHANGED <<backend, bg, handler, tx, toDev>> /\ ~dev.booting /\ ~dev.cpu_wait_resp
      /\ dev' = [dev EXCEPT !.cpu_wait_resp = TRUE] /\ count' = [count EXCEPT !.cpu = @ + 1]
  BY DEF CpuIssue, fixed
<1>3. ThreadInv' /\ Resetting' = Resetting /\ Past' = Past
  BY <1>2 DEF ThreadInv, Resetting, Past
<1>4. /\ DOMAIN count' = DOMAIN count /\ count'.faults = count.faults /\ count'.botched = count.botched
      /\ InTime' = InTime
  BY <1>2 DEF LinkInv, Shaped, InTime
<1>5. /\ DOMAIN dev' = DOMAIN dev /\ dev'.cpu_wait_resp = TRUE /\ dev'.request = dev.request
      /\ dev'.booting = dev.booting
  BY <1>2 DEF LinkInv, Shaped
<1>6. PICK u : u = Append(toHost, x)
  OBVIOUS
<1>7. x.type = "cpu_req" /\ IsSeq(toHost)
  BY <1>1 DEF Packet, LinkInv, Shaped, FromTarget
<1>8. /\ IsSeq(u) /\ Len(u) = Len(toHost) + 1 /\ Len(toHost) \in Nat
      /\ \A i \in 1 .. Len(toHost) : u[i] = toHost[i]
      /\ u[Len(toHost) + 1] = x
  BY <1>6, <1>7, AppendSeq DEF IsSeq
<1>9. /\ Has(u, "cpu_req") /\ (Has(u, "host_resp") <=> Has(toHost, "host_resp"))
      /\ AtMostOne(toHost, "host_resp") => AtMostOne(u, "host_resp")
      /\ AtMostOne(toHost, "cpu_req") /\ ~Has(toHost, "cpu_req") => AtMostOne(u, "cpu_req")
  BY <1>6, <1>7, AppendHas
<1>10. \A i \in 1 .. Len(u) : (i \in 1 .. Len(toHost) /\ u[i] = toHost[i]) \/ u[i] = x
  BY <1>8
<1>11. FromTarget(u)
  BY <1>7, <1>8, <1>10 DEF LinkInv, Shaped, FromTarget
<1>12. Shaped'
  BY <1>1, <1>2, <1>4, <1>5, <1>6, <1>11 DEF LinkInv, Shaped
<1>13. ASSUME ~count'.botched PROVE ResetLast' /\ CpuAccess'
  <2>1. ResetLast /\ CpuAccess
    BY <1>4, <1>13 DEF LinkInv
  <2>2. ResetLast'
    BY <1>2, <1>3, <1>5, <2>1 DEF ResetLast
  <2>3. ~HasAccess(handler, tx, toDev, toHost) /\ OneAccess(handler, tx, toDev, toHost)
    BY <1>2, <2>1 DEF CpuAccess, Restarted
  <2>4. OneAccess(handler, tx, toDev, u)
    BY <1>9, <2>3 DEF OneAccess, HasAccess
  <2>5. CpuAccess'
    BY <1>1, <1>2, <1>5, <1>6, <2>4 DEF CpuAccess
  <2> QED BY <2>2, <2>5
<1>14. OneRequest(handler, tx, toDev, toHost, dev.request) => OneRequest(handler, tx, toDev, u, dev.request)
  BY <1>9 DEF OneRequest
<1>15. LeftOver => LeftOver'
  <2>1. SUFFICES ASSUME LeftOver PROVE LeftOver'
    OBVIOUS
  <2>2. \A i \in 1 .. Len(u) : u[i].type = "host_resp" => u[i].req.write = FALSE
    BY <1>7, <1>10, <2>1 DEF LeftOver
  <2>3. /\ UNCHANGED <<handler, tx, toDev>> /\ toHost' = u /\ dev'.request = dev.request
        /\ Resetting' = Resetting
    BY <1>1, <1>2, <1>3, <1>5, <1>6
  <2> QED BY <2>1, <2>2, <2>3 DEF LeftOver
<1>16. HostRequest => HostRequest'
  BY <1>1, <1>2, <1>3, <1>5, <1>6, <1>14, <1>15 DEF HostRequest
<1>17. LinkInv'
  BY <1>2, <1>4, <1>12, <1>13, <1>16 DEF LinkInv
<1> QED BY <1>3, <1>17

\* The target takes a packet: the answer its CPU waits for, or a request when it has
\* none in hand (host_bus_interface.sv).
LEMMA DevTakeLink ==
  ASSUME ThreadInv, LinkInv, DevTake
  PROVE  ThreadInv' /\ LinkInv'
<1>1. PICK pkt, v : pkt = Head(toDev) /\ v = Tail(toDev)
  OBVIOUS
<1>2. /\ UNCHANGED <<backend, bg, handler, tx, toHost, count>> /\ toDev # << >> /\ toDev' = v
      /\ \/ pkt.type = "cpu_resp" /\ dev' = [dev EXCEPT !.cpu_wait_resp = FALSE]
         \/ pkt.type = "host_req" /\ dev.request = None /\ dev' = [dev EXCEPT !.request = pkt.req]
  BY <1>1 DEF DevTake, fixed
<1>3. ThreadInv' /\ Resetting' = Resetting /\ Past' = Past /\ InTime' = InTime
  BY <1>2 DEF ThreadInv, Resetting, Past, InTime
<1>4. DOMAIN dev = {"cpu_wait_resp", "request", "booting"} /\ IsSeq(toDev)
  BY DEF LinkInv, Shaped
<1>5. /\ IsSeq(v) /\ Len(toDev) \in Nat /\ Len(toDev) >= 1 /\ Len(v) = Len(toDev) - 1 /\ pkt = toDev[1]
      /\ \A i \in 1 .. Len(toDev) - 1 : v[i] = toDev[i + 1]
  BY <1>1, <1>2, <1>4, TailSeq DEF IsSeq
<1>6. \A type : /\ Has(toDev, type) <=> Has(v, type) \/ pkt.type = type
                /\ AtMostOne(toDev, type) => /\ AtMostOne(v, type)
                                             /\ pkt.type = type => ~Has(v, type)
  BY <1>1, <1>2, <1>4, TailHas
<1>7. \/ /\ pkt.type = "cpu_resp" /\ dev'.cpu_wait_resp = FALSE /\ dev'.request = dev.request
      \/ /\ pkt.type = "host_req" /\ dev.request = None /\ dev'.request = pkt.req
         /\ dev'.cpu_wait_resp = dev.cpu_wait_resp
  BY <1>2, <1>4
<1>8. Shaped'
  <2>1. DOMAIN dev' = DOMAIN dev /\ dev'.booting = dev.booting
    BY <1>2, <1>4
  <2>2. dev'.cpu_wait_resp \in BOOLEAN
    BY <1>7 DEF LinkInv, Shaped
  <2> QED BY <1>2, <1>5, <2>1, <2>2 DEF LinkInv, Shaped
<1>9. ASSUME ~count.botched PROVE ResetLast' /\ CpuAccess'
  <2>1. ResetLast /\ CpuAccess
    BY <1>9 DEF LinkInv
  <2>2. \A i \in 1 .. Len(v) : i + 1 \in 1 .. Len(toDev) /\ v[i] = toDev[i + 1]
    BY <1>5
  <2>3. ASSUME NEW i \in 1 .. Len(v), IsReset(v[i]) PROVE Past /\ i = Len(v) /\ tx = << >>
    <3>1. Past /\ i + 1 = Len(toDev) /\ tx = << >>
      BY <2>1, <2>2, <2>3 DEF ResetLast
    <3> QED BY <1>5, <3>1
  <2>4. SysReset(dev'.request) => Past /\ v = << >> /\ tx = << >>
    <3>1. ~SysReset(dev.request)
      BY <1>2, <2>1 DEF ResetLast
    <3>2. ASSUME IsReset(pkt) PROVE Past /\ v = << >> /\ tx = << >>
      <4>1. 1 \in 1 .. Len(toDev) /\ IsReset(toDev[1])
        BY <1>5, <3>2
      <4>2. Past /\ 1 = Len(toDev) /\ tx = << >>
        BY <2>1, <4>1 DEF ResetLast
      <4>5. Len(v) = Len(toDev) - 1
        BY <1>5
      <4>3. Len(v) = 0
        BY <4>2, <4>5
      <4>4. v = << >>
        BY <1>5, <4>3 DEF IsSeq
      <4> QED BY <4>2, <4>4
    <3> QED BY <1>7, <3>1, <3>2 DEF IsReset
  <2>5. ResetLast'
    BY <1>2, <1>3, <2>1, <2>3, <2>4 DEF ResetLast
  <2>6. OneAccess(handler, tx, toDev, toHost) /\ (HasAccess(handler, tx, toDev, toHost) => dev.cpu_wait_resp)
    BY <1>2, <2>1 DEF CpuAccess, Restarted
  <2>7. OneAccess(handler, tx, v, toHost) /\ (HasAccess(handler, tx, v, toHost) => HasAccess(handler, tx, toDev, toHost))
    BY <1>6, <2>6 DEF OneAccess, HasAccess
  <2>8. pkt.type = "cpu_resp" => ~HasAccess(handler, tx, v, toHost)
    BY <1>6, <2>6 DEF OneAccess, HasAccess
  <2>9. CpuAccess'
    BY <1>2, <1>7, <2>6, <2>7, <2>8 DEF CpuAccess
  <2> QED BY <2>5, <2>9
<1>10. OneRequest(handler, tx, toDev, toHost, dev.request) => OneRequest(handler, tx, v, toHost, dev'.request)
  BY <1>6, <1>7 DEF OneRequest
<1>11. LeftOver => LeftOver'
  BY <1>2, <1>3, <1>6, <1>7 DEF LeftOver
<1>12. HostRequest => HostRequest'
  BY <1>2, <1>3, <1>10, <1>11 DEF HostRequest
<1>13. LinkInv'
  BY <1>2, <1>3, <1>8, <1>9, <1>12 DEF LinkInv
<1> QED BY <1>3, <1>13

\* The target serves the request in hand; a reset of the system may leave no response.
LEMMA DevServeLink ==
  ASSUME ThreadInv, LinkInv, DevServe
  PROVE  ThreadInv' /\ LinkInv'
<1>1. /\ UNCHANGED <<backend, bg, handler, tx, toDev, count>> /\ dev.request # None
  BY DEF DevServe, fixed
<1>2. ThreadInv' /\ Resetting' = Resetting /\ Past' = Past /\ InTime' = InTime
  BY <1>1 DEF ThreadInv, Resetting, Past, InTime
<1>3. /\ DOMAIN dev = {"cpu_wait_resp", "request", "booting"} /\ IsSeq(toHost)
      /\ dev.cpu_wait_resp \in BOOLEAN /\ dev.booting \in BOOLEAN
  BY DEF LinkInv, Shaped, FromTarget
<1>4. ASSUME NEW data, NEW d, Serve(data, d) PROVE \E x : x.type = "host_resp" /\ toHost' = Append(toHost, x)
  <2>1. Packet("host_resp", dev.request, data).type = "host_resp"
    BY DEF Packet
  <2> QED BY <1>4, <2>1 DEF Serve
<1>5. /\ toHost' = toHost \/ \E x : x.type = "host_resp" /\ toHost' = Append(toHost, x)
      /\ \/ /\ SysReset(dev.request)
            /\ dev' = [Booting EXCEPT !.request = None] \/ dev' = Booting
         \/ dev' = [[dev EXCEPT !.booting = TRUE] EXCEPT !.request = None]
         \/ dev' = [[dev EXCEPT !.booting = FALSE] EXCEPT !.request = None]
         \/ dev' = [dev EXCEPT !.request = None]
  <2>1. CASE dev.request.addr = RESET /\ Serve(<< >>, [dev EXCEPT !.booting = TRUE])
    BY <1>4, <2>1 DEF Serve
  <2>2. CASE /\ dev.request.addr = RESET /\ dev.request.value = RESET_SYSTEM
             /\ Serve(<< >>, Booting) \/ (dev' = Booting /\ UNCHANGED toHost)
    BY <1>4, <2>2 DEF Serve, SysReset
  <2>3. CASE Serve(<< >>, [dev EXCEPT !.booting = FALSE])
    BY <1>4, <2>3 DEF Serve
  <2>4. CASE \E data : Serve(data, dev)
    BY <1>4, <2>4 DEF Serve
  <2> QED BY <2>1, <2>2, <2>3, <2>4 DEF DevServe
<1>6. /\ DOMAIN dev' = DOMAIN dev /\ dev'.request = None
      /\ dev'.cpu_wait_resp \in BOOLEAN /\ dev'.booting \in BOOLEAN
  <2>1. CASE dev' = [Booting EXCEPT !.request = None] \/ dev' = Booting
    <3>1. dev' = Booting
      BY <2>1 DEF Booting
    <3> QED BY <1>3, <3>1 DEF Booting
  <2>2. CASE dev' = [[dev EXCEPT !.booting = TRUE] EXCEPT !.request = None]
    <3>1. /\ DOMAIN dev' = DOMAIN dev /\ dev'.request = None /\ dev'.booting = TRUE
          /\ dev'.cpu_wait_resp = dev.cpu_wait_resp
      BY <1>3, <2>2
    <3> QED BY <1>3, <3>1
  <2>3. CASE dev' = [[dev EXCEPT !.booting = FALSE] EXCEPT !.request = None]
    <3>1. /\ DOMAIN dev' = DOMAIN dev /\ dev'.request = None /\ dev'.booting = FALSE
          /\ dev'.cpu_wait_resp = dev.cpu_wait_resp
      BY <1>3, <2>3
    <3> QED BY <1>3, <3>1
  <2>4. CASE dev' = [dev EXCEPT !.request = None]
    <3>1. /\ DOMAIN dev' = DOMAIN dev /\ dev'.request = None /\ dev'.booting = dev.booting
          /\ dev'.cpu_wait_resp = dev.cpu_wait_resp
      BY <1>3, <2>4
    <3> QED BY <1>3, <3>1
  <2> QED BY <1>5, <2>1, <2>2, <2>3, <2>4
<1>7. (SysReset(dev.request) /\ dev'.booting = TRUE) \/ dev'.cpu_wait_resp = dev.cpu_wait_resp
  <2>1. CASE SysReset(dev.request) /\ (dev' = [Booting EXCEPT !.request = None] \/ dev' = Booting)
    <3>1. dev' = Booting
      BY <2>1 DEF Booting
    <3> QED BY <2>1, <3>1 DEF Booting
  <2>2. CASE \/ dev' = [[dev EXCEPT !.booting = TRUE] EXCEPT !.request = None]
             \/ dev' = [[dev EXCEPT !.booting = FALSE] EXCEPT !.request = None]
             \/ dev' = [dev EXCEPT !.request = None]
    <3>1. dev'.cpu_wait_resp = dev.cpu_wait_resp
      BY <1>3, <2>2
    <3> QED BY <3>1
  <2> QED BY <1>5, <2>1, <2>2
<1>8. PICK u : u = toHost'
  OBVIOUS
<1>9. /\ FromTarget(u) /\ (Has(u, "cpu_req") <=> Has(toHost, "cpu_req"))
      /\ AtMostOne(toHost, "cpu_req") => AtMostOne(u, "cpu_req")
      /\ ~Has(toHost, "host_resp") /\ AtMostOne(toHost, "host_resp") => AtMostOne(u, "host_resp")
  <2>1. CASE toHost' = toHost
    BY <1>8, <2>1 DEF LinkInv, Shaped
  <2>2. ASSUME NEW x, x.type = "host_resp", toHost' = Append(toHost, x)
        PROVE  /\ FromTarget(u) /\ (Has(u, "cpu_req") <=> Has(toHost, "cpu_req"))
               /\ AtMostOne(toHost, "cpu_req") => AtMostOne(u, "cpu_req")
               /\ ~Has(toHost, "host_resp") /\ AtMostOne(toHost, "host_resp") => AtMostOne(u, "host_resp")
    <3>1. u = Append(toHost, x)
      BY <1>8, <2>2
    <3>2. /\ IsSeq(u) /\ Len(u) = Len(toHost) + 1 /\ Len(toHost) \in Nat
          /\ \A i \in 1 .. Len(toHost) : u[i] = toHost[i]
          /\ u[Len(toHost) + 1] = x
      BY <1>3, <3>1, AppendSeq DEF IsSeq
    <3>3. \A i \in 1 .. Len(u) : (i \in 1 .. Len(toHost) /\ u[i] = toHost[i]) \/ u[i] = x
      BY <3>2
    <3>4. FromTarget(u)
      BY <2>2, <3>2, <3>3 DEF LinkInv, Shaped, FromTarget
    <3> QED BY <1>3, <2>2, <3>1, <3>4, AppendHas
  <2> QED BY <1>5, <2>1, <2>2
<1>10. Shaped'
  BY <1>1, <1>6, <1>8, <1>9 DEF LinkInv, Shaped
<1>11. ASSUME ~count.botched PROVE ResetLast' /\ CpuAccess'
  <2>1. ResetLast /\ CpuAccess
    BY <1>11 DEF LinkInv
  <2>2. ~SysReset(None)
    BY DEF SysReset, None, Request, RESET_SYSTEM
  <2>3. ResetLast'
    BY <1>1, <1>2, <1>6, <2>1, <2>2 DEF ResetLast
  <2>4. OneAccess(handler, tx, toDev, toHost) /\ (HasAccess(handler, tx, toDev, toHost) => dev.cpu_wait_resp)
    BY <1>1, <2>1 DEF CpuAccess, Restarted
  <2>5. /\ OneAccess(handler, tx, toDev, u)
        /\ HasAccess(handler, tx, toDev, u) => HasAccess(handler, tx, toDev, toHost)
    BY <1>9, <2>4 DEF OneAccess, HasAccess
  <2>6. SysReset(dev.request) /\ dev'.booting = TRUE => Restarted'
    BY <1>1, <1>2, <1>6, <2>1 DEF ResetLast, Restarted
  <2>7. CpuAccess'
    BY <1>1, <1>7, <1>8, <2>4, <2>5, <2>6 DEF CpuAccess
  <2> QED BY <2>3, <2>7
<1>12. OneRequest(handler, tx, toDev, toHost, dev.request) => OneRequest(handler, tx, toDev, u, None)
  BY <1>1, <1>9 DEF OneRequest
<1>13. ~LeftOver
  BY <1>1 DEF LeftOver
<1>14. HostRequest => HostRequest'
  BY <1>1, <1>2, <1>6, <1>8, <1>12, <1>13 DEF HostRequest
<1>15. LinkInv'
  BY <1>1, <1>2, <1>10, <1>11, <1>14 DEF LinkInv
<1> QED BY <1>2, <1>15

(***************************************************************************)
(* The start, and the invariant of the whole.                              *)
(***************************************************************************)

\* What an earlier session may have left on a board.
LeftTarget(d) ==
  /\ DOMAIN d = {"cpu_wait_resp", "request", "booting"} /\ d.request = None
  /\ d.cpu_wait_resp \in BOOLEAN /\ d.booting \in BOOLEAN

LeftPackets(u) ==
  /\ FromTarget(u) /\ AtMostOne(u, "cpu_req")
  /\ \A i \in 1 .. Len(u) : u[i].type = "host_resp" => u[i].req.write = FALSE

LEMMA LeftoversKnown ==
  ASSUME NEW left \in Leftovers
  PROVE  /\ LeftTarget(left.target) /\ LeftPackets(left.toHost)
         /\ Has(left.toHost, "cpu_req") => left.target.cpu_wait_resp
         /\ left \in NothingLeft => left.toHost = << >>
<1>1. ASSUME NEW s, IsSeq(s), Len(s) = 1
      PROVE  /\ AtMostOne(s, "cpu_req") /\ s # << >>
             /\ \A i \in 1 .. Len(s) : i = 1
             /\ 1 \in 1 .. Len(s)
  <2>1. \A i \in 1 .. Len(s) : i = 1
    BY <1>1
  <2>2. AtMostOne(s, "cpu_req")
    BY <2>1 DEF AtMostOne
  <2> QED BY <1>1, <2>1, <2>2, EmptySeq
<1>2. LeftPackets(<< >>) /\ ~Has(<< >>, "cpu_req")
  BY EmptySeq DEF LeftPackets, FromTarget
<1>3. ASSUME NEW waiting \in BOOLEAN, NEW sent, left = Left(waiting, sent)
      PROVE  LeftTarget(left.target) /\ left.target.cpu_wait_resp = waiting /\ left.toHost = sent
  BY <1>3 DEF Left, LeftTarget
<1>4. CASE left = [target |-> Booting, toHost |-> << >>]
  <2>1. LeftTarget(left.target) /\ left.toHost = << >>
    BY <1>4 DEF Booting, LeftTarget
  <2> QED BY <1>2, <2>1
<1>5. CASE left = Left(FALSE, << >>)
  <2>1. LeftTarget(left.target) /\ left.toHost = << >>
    BY <1>3, <1>5
  <2> QED BY <1>2, <2>1
<1>6. CASE left = Left(TRUE, << >>)
  <2>1. LeftTarget(left.target) /\ left.toHost = << >>
    BY <1>3, <1>6
  <2> QED BY <1>2, <2>1
<1>7. CASE left = Left(TRUE, <<Packet("cpu_req", Request(0, FALSE, RTL_END, 4, 1, 0), << >>)>>)
  <2>1. PICK x, s : s = <<x>> /\ x = Packet("cpu_req", Request(0, FALSE, RTL_END, 4, 1, 0), << >>)
    OBVIOUS
  <2>2. LeftTarget(left.target) /\ left.target.cpu_wait_resp = TRUE /\ left.toHost = s
    BY <1>3, <1>7, <2>1
  <2>3. x.type = "cpu_req" /\ x.req.write = FALSE
    BY <2>1 DEF Packet, Request
  <2>4. LeftPackets(s) /\ s # << >>
    <3>1. IsSeq(s) /\ Len(s) = 1 /\ s[1] = x
      BY <2>1 DEF IsSeq
    <3>2. /\ AtMostOne(s, "cpu_req") /\ s # << >>
          /\ \A i \in 1 .. Len(s) : i = 1
      BY <1>1, <3>1
    <3>3. \A i \in 1 .. Len(s) : s[i] = x
      BY <3>1, <3>2
    <3> QED BY <2>3, <3>1, <3>2, <3>3 DEF LeftPackets, FromTarget, Has
  <2>5. left \notin NothingLeft
    BY <2>2, <2>4 DEF NothingLeft, Left
  <2> QED BY <2>2, <2>4, <2>5
<1>8. CASE left = Left(FALSE, <<Packet("host_resp", Request(0, FALSE, STATUS, 4, 1, 0), <<0>>)>>)
  <2>1. PICK x, s : s = <<x>> /\ x = Packet("host_resp", Request(0, FALSE, STATUS, 4, 1, 0), <<0>>)
    OBVIOUS
  <2>2. LeftTarget(left.target) /\ left.toHost = s
    BY <1>3, <1>8, <2>1
  <2>3. x.type = "host_resp" /\ x.req.write = FALSE
    BY <2>1 DEF Packet, Request
  <2>4. LeftPackets(s) /\ s # << >> /\ ~Has(s, "cpu_req")
    <3>1. IsSeq(s) /\ Len(s) = 1 /\ s[1] = x
      BY <2>1 DEF IsSeq
    <3>2. /\ AtMostOne(s, "cpu_req") /\ s # << >>
          /\ \A i \in 1 .. Len(s) : i = 1
      BY <1>1, <3>1
    <3>3. \A i \in 1 .. Len(s) : s[i] = x
      BY <3>1, <3>2
    <3> QED BY <2>3, <3>1, <3>2, <3>3 DEF LeftPackets, FromTarget, Has
  <2>5. left \notin NothingLeft
    BY <2>2, <2>4 DEF NothingLeft, Left
  <2> QED BY <2>2, <2>4, <2>5
<1> QED BY <1>4, <1>5, <1>6, <1>7, <1>8 DEF Leftovers, NothingLeft

IInv == ClientInv /\ CommandsInv /\ ThreadInv /\ LinkInv

\* A runtime starts with a new handler, or with the request of a reset in it
\* (FpgaDeviceRuntime::new, SimDeviceRuntime::new).
LEMMA InitInv == Init => IInv
<1> SUFFICES ASSUME Init PROVE IInv
  OBVIOUS
<1>1. backend \in {"fpga", "sim"}
  BY RuntimeAssumption DEF Init
<1>2. CommandsInv /\ tx = << >> /\ toDev = << >> /\ IsSeq(tx) /\ IsSeq(toDev)
  BY EmptySeq DEF Init, CommandsInv
<1>3. /\ DOMAIN NewHandler = {"outgoing_request", "tx_started", "outgoing_response", "incoming_request",
                              "accepted_request", "pending_response"}
      /\ NewHandler.outgoing_request = None /\ NewHandler.tx_started = FALSE
      /\ NewHandler.outgoing_response = NoResponse /\ NewHandler.incoming_request = None
      /\ NewHandler.accepted_request = None /\ NewHandler.pending_response = FALSE
  BY DEF NewHandler
<1>4. /\ DOMAIN Idle = {"at", "cmd", "call", "offset", "data", "req", "region", "result", "fresh"}
      /\ Idle.at = "idle" /\ Idle.call = 1 /\ Idle.offset = 0 /\ Idle.req = None /\ Idle.region = NoRegion
  BY DEF Idle
<1>5. None.size \in Nat /\ None.beats \in Nat /\ ~SysReset(None)
  BY DEF None, Request, SysReset, RESET_SYSTEM
<1>6. main = Idle => ClientInv
  BY <1>4, <1>5 DEF ClientInv, Active
<1>7. CASE backend = "sim"
  <2>1. /\ main = Idle /\ handler = NewHandler /\ bg = [at |-> "command", resetting |-> "no"]
        /\ dev = Booting /\ toHost = << >>
        /\ count = [ids |-> 0, commands |-> 0, faults |-> 0, botched |-> FALSE, cpu |-> 0]
    BY <1>7 DEF Init, Create
  <2>2. ThreadInv
    BY <1>1, <2>1 DEF ThreadInv, Resetting
  <2>3. FromTarget(toHost)
    BY <2>1, EmptySeq DEF FromTarget
  <2>4. /\ DOMAIN dev = {"cpu_wait_resp", "request", "booting"} /\ dev.request = None
        /\ dev.cpu_wait_resp = FALSE /\ dev.booting = TRUE
    BY <2>1 DEF Booting
  <2>5. /\ DOMAIN count = {"ids", "commands", "faults", "botched", "cpu"}
        /\ count.faults = 0 /\ count.botched = FALSE
    BY <2>1
  <2>6. Shaped
    BY <1>2, <1>3, <2>1, <2>3, <2>4, <2>5 DEF Shaped, IsHandler
  <2>7. ResetLast /\ CpuAccess
    BY <1>2, <1>3, <1>5, <2>1, <2>4, EmptySeq DEF ResetLast, CpuAccess, OneAccess, HasAccess
  <2>8. HostRequest
    BY <1>2, <1>3, <2>1, <2>4, EmptySeq DEF HostRequest, OneRequest
  <2> QED BY <1>2, <1>6, <2>1, <2>2, <2>5, <2>6, <2>7, <2>8 DEF IInv, LinkInv
<1>8. CASE backend = "fpga"
  <2>1. PICK startup \in Startups, left \in Leftovers : Connect(startup, left)
    BY <1>8 DEF Init
  <2>2. PICK r : r = RequestAt(Script[startup][1], NoRegion, 0, 1, 0)
    OBVIOUS
  <2>3. /\ dev = left.target /\ toHost = left.toHost
        /\ main = IF startup = "none" THEN Idle
                  ELSE [Idle EXCEPT !.at = "wait_reset", !.cmd = startup, !.req = r]
        /\ handler = IF startup = "none" THEN NewHandler ELSE SendRequest(NewHandler, r)
        /\ startup = "none" => bg = [at |-> "command", resetting |-> "no"]
        /\ startup = "connect_cpu" => bg = [at |-> "timeout", resetting |-> "cpu"]
        /\ startup = "connect_system" => bg = [at |-> "timeout", resetting |-> "system"]
    BY <2>1, <2>2 DEF Connect
  <2>4. /\ DOMAIN count = {"ids", "commands", "faults", "botched", "cpu"}
        /\ count.botched = FALSE /\ count.faults \in Nat
        /\ count.faults = 0 => left \in NothingLeft \/ startup = "connect_system"
    BY <2>1 DEF Connect
  <2>5. /\ startup = "connect_cpu" => r = Request(1, TRUE, RESET, 4, 1, RESET_CPU)
        /\ startup = "connect_system" => r = Request(1, TRUE, RESET, 4, 1, RESET_SYSTEM)
    <3>1. Script["connect_cpu"][1] = "start_cpu" /\ Script["connect_system"][1] = "start_system"
      BY DEF Script, ConnectCpu, ConnectSystem
    <3>2. RequestAt("start_cpu", NoRegion, 0, 1, 0) = Request(1, TRUE, RESET, 4, 1, RESET_CPU)
      BY DEF RequestAt
    <3>3. RequestAt("start_system", NoRegion, 0, 1, 0) = Request(1, TRUE, RESET, 4, 1, RESET_SYSTEM)
      BY DEF RequestAt
    <3> QED BY <2>2, <3>1, <3>2, <3>3
  <2>6. startup \in {"none", "connect_cpu", "connect_system"}
    BY DEF Startups, Connecting
  <2>7. startup # "none" => /\ r.size = 4 /\ r.beats = 1 /\ r.write = TRUE
                            /\ SysReset(r) => startup = "connect_system"
    BY <2>5, <2>6 DEF Request, SysReset, RESET_CPU, RESET_SYSTEM
  <2>8. ClientInv
    <3>1. CASE startup # "none"
      <4>1. /\ DOMAIN main = DOMAIN Idle /\ main.at = "wait_reset" /\ main.cmd = startup /\ main.call = 1
            /\ main.offset = 0 /\ main.req = r /\ main.region = NoRegion
        BY <1>4, <2>3, <3>1
      <4>2. startup \in DOMAIN Script /\ startup \in Connecting /\ 1 \in 1 .. Len(Script[startup])
        BY <2>6, <3>1 DEF Script, Connecting, ConnectCpu, ConnectSystem
      <4> QED BY <1>4, <2>7, <3>1, <4>1, <4>2 DEF ClientInv, Active
    <3> QED BY <1>6, <2>3, <3>1
  <2>9. ThreadInv
    BY <1>8, <2>3, <2>6 DEF ThreadInv, Resetting
  <2>10. /\ DOMAIN handler = DOMAIN NewHandler /\ handler.tx_started = FALSE
         /\ handler.outgoing_response = NoResponse /\ handler.incoming_request = None
         /\ handler.accepted_request = None /\ handler.pending_response = FALSE
         /\ handler.outgoing_request = IF startup = "none" THEN None ELSE r
    BY <1>3, <2>3 DEF SendRequest
  <2>11. /\ DOMAIN dev = {"cpu_wait_resp", "request", "booting"} /\ dev.request = None
         /\ dev.cpu_wait_resp \in BOOLEAN /\ dev.booting \in BOOLEAN
         /\ FromTarget(toHost) /\ AtMostOne(toHost, "cpu_req")
         /\ Has(toHost, "cpu_req") => dev.cpu_wait_resp
         /\ \A i \in 1 .. Len(toHost) : toHost[i].type = "host_resp" => toHost[i].req.write = FALSE
         /\ left \in NothingLeft => toHost = << >>
    BY <2>3, LeftoversKnown DEF LeftTarget, LeftPackets
  <2>12. Shaped
    <3>1. IsHandler(handler)
      BY <1>3, <2>10 DEF IsHandler
    <3> QED BY <1>2, <2>4, <2>11, <3>1 DEF Shaped
  <2>13. Resetting <=> startup = "connect_system"
    BY <2>3, <2>6 DEF Resetting
  <2>14. ResetLast
    BY <1>2, <1>5, <2>7, <2>10, <2>11, <2>13, EmptySeq DEF ResetLast
  <2>15. CpuAccess
    BY <1>2, <2>10, <2>11, EmptySeq DEF CpuAccess, OneAccess, HasAccess
  <2>16. InTime => HostRequest
    <3>1. CASE left \in NothingLeft
      BY <1>2, <2>10, <2>11, <3>1, EmptySeq DEF HostRequest, OneRequest
    <3>2. CASE startup = "connect_system"
      BY <1>2, <2>7, <2>10, <2>11, <2>13, <3>2, EmptySeq DEF HostRequest, LeftOver
    <3> QED BY <2>4, <3>1, <3>2 DEF InTime
  <2> QED BY <1>2, <1>8, <2>4, <2>8, <2>9, <2>12, <2>14, <2>15, <2>16 DEF IInv, LinkInv
<1> QED BY <1>1, <1>7, <1>8

\* Every step keeps it.
LEMMA NextInv == IInv /\ [Next]_vars => IInv'
<1> SUFFICES ASSUME IInv, [Next]_vars PROVE IInv'
  OBVIOUS
<1>1. ClientInv /\ CommandsInv /\ ThreadInv /\ LinkInv
  BY DEF IInv
<1>2. CASE Client
  BY <1>1, <1>2, ClientStep, ClientLink DEF IInv
<1>3. CASE Thread \/ Failure \/ CpuIssue \/ DevTake \/ DevServe
  <2>1. ClientInv' /\ CommandsInv'
    BY <1>1, <1>3, ThreadClient
  <2>2. CASE Command
    BY <1>1, <2>1, <2>2, CommandLink DEF IInv
  <2>3. CASE NoCommand \/ SimTimeOut \/ NoTimeOut \/ SimNoResponse \/ SimulationError
    BY <1>1, <2>1, <2>3, QuietLink DEF IInv
  <2>4. CASE FpgaTimeOut
    BY <1>1, <2>1, <2>4, FpgaTimeOutLink DEF IInv
  <2>5. CASE RxPacket
    BY <1>1, <2>1, <2>5, RxPacketLink DEF IInv
  <2>6. CASE TxPackets
    BY <1>1, <2>1, <2>6, TxPacketsLink DEF IInv
  <2>7. CASE SimLink
    BY <1>1, <2>1, <2>7, SimLinkLink DEF IInv
  <2>8. CASE Response
    BY <1>1, <2>1, <2>8, ResponseLink DEF IInv
  <2>9. CASE FpgaCpu
    BY <1>1, <2>1, <2>9, FpgaCpuLink DEF IInv
  <2>10. CASE Settle
    BY <1>1, <2>1, <2>10, SettleLink DEF IInv
  <2>11. CASE PortError("error") \/ PortError("fatal")
    BY <1>1, <2>1, <2>11, PortErrorLink DEF IInv
  <2>12. CASE CpuIssue
    BY <1>1, <2>1, <2>12, CpuIssueLink DEF IInv
  <2>13. CASE DevTake
    BY <1>1, <2>1, <2>13, DevTakeLink DEF IInv
  <2>14. CASE DevServe
    BY <1>1, <2>1, <2>14, DevServeLink DEF IInv
  <2> QED BY <1>3, <2>2, <2>3, <2>4, <2>5, <2>6, <2>7, <2>8, <2>9, <2>10, <2>11, <2>12, <2>13, <2>14
          DEF Thread, Failure
<1>4. CASE UNCHANGED vars
  <2>1. /\ UNCHANGED <<backend, bg, handler, tx, toDev, toHost, dev, count, main, commands>>
    BY <1>4 DEF vars, fixed, client, link
  <2>2. ClientInv' /\ CommandsInv' /\ ThreadInv'
    BY <1>1, <2>1 DEF ClientInv, CommandsInv, ThreadInv, Active, Call, Resetting
  <2>3. (Resetting => Resetting') /\ (Past => Past')
    BY <2>1 DEF Resetting, Past
  <2>4. DOMAIN count' = DOMAIN count /\ count'.faults \in Nat /\ count'.faults >= count.faults
    BY <1>1, <2>1 DEF LinkInv, Shaped
  <2>5. LinkInv'
    BY <1>1, <2>1, <2>3, <2>4, StillKeeps
  <2> QED BY <2>2, <2>5 DEF IInv
<1> QED BY <1>2, <1>3, <1>4 DEF Next

\* The invariant holds throughout.
LEMMA Inductive == Spec => []IInv
BY InitInv, NextInv, PTL DEF Spec

\* The target is never handed a response that its CPU does not wait for, unless a reset
\* of the system has failed half-way (host_bus_handler.rs, start_tx_packet; fpga.rs,
\* handle_reset_command; host_bus_interface.sv).
THEOREM NeverUnsolicitedHolds == Spec => []NeverUnsolicited
<1>1. IInv => NeverUnsolicited
  <2>1. SUFFICES ASSUME IInv, toDev # << >>, Head(toDev).type = "cpu_resp", ~count.botched
                 PROVE  dev.cpu_wait_resp
    BY DEF NeverUnsolicited
  <2>2. CpuAccess /\ IsSeq(toDev)
    BY <2>1 DEF IInv, LinkInv, Shaped
  <2>3. Has(toDev, "cpu_resp")
    BY <2>1, <2>2, TailHas
  <2> QED BY <2>1, <2>2, <2>3 DEF CpuAccess, HasAccess, Restarted
<1> QED BY <1>1, Inductive, PTL

\* A packet that arrives finds its buffer free, in the simulator always, on the FPGA as
\* long as nothing fails (host_bus_handler.rs:470, sim_core.rs:258).
THEOREM AlwaysRoomHolds == Spec => []AlwaysRoom
<1>1. IInv => AlwaysRoom
  <2>1. SUFFICES ASSUME IInv, bg.at = "link", toHost # << >>, backend = "sim" \/ InTime
                 PROVE  CanTake(handler, Head(toHost))
    BY DEF AlwaysRoom
  <2>2. FromTarget(toHost) /\ ~count.botched
    BY <2>1 DEF IInv, LinkInv, Shaped
  <2>3. CpuAccess /\ (OneRequest(handler, tx, toDev, toHost, dev.request) \/ LeftOver)
    BY <2>1, <2>2 DEF IInv, LinkInv, HostRequest, Past
  <2>4. Head(toHost).type \in {"cpu_req", "host_resp"} /\ Has(toHost, Head(toHost).type)
    BY <2>1, <2>2, FirstFromTarget, TailHas DEF FromTarget
  <2>5. CASE Head(toHost).type = "cpu_req"
    BY <2>3, <2>4, <2>5 DEF CpuAccess, OneAccess, CanTake, IsResponse
  <2>6. CASE Head(toHost).type = "host_resp"
    BY <2>3, <2>4, <2>6 DEF OneRequest, LeftOver, CanTake, IsResponse
  <2> QED BY <2>4, <2>5, <2>6
<1> QED BY <1>1, Inductive, PTL

(***************************************************************************)
(* Whose response it is.  As long as nothing fails there is one request of *)
(* the host, from the client that asks for it to the response: what the    *)
(* packets on the link, the target and the handler hold is the outgoing    *)
(* request, and that is the pending one.                                   *)
(***************************************************************************)
\* The requests of the host in a buffer, and the responses it would take for its own
\* (finalize_rx_packet compares the metadata).
OwnPackets(s, q) == \A x \in Elems(s) : x.type = "host_req" => x.req = q
OwnAnswers(u, q) == \A x \in Elems(u) : x.type = "host_resp" /\ SameMeta(q, x.req) => x.req = q

OwnLink(h, t, d, u, held) ==
  /\ OwnPackets(t, h.outgoing_request) /\ OwnPackets(d, h.outgoing_request)
  /\ OwnAnswers(u, h.outgoing_request)
  /\ held # None => held = h.outgoing_request
  /\ h.outgoing_response # NoResponse => h.outgoing_response.req = h.outgoing_request

\* A packet of the target goes to its buffer.
LEMMA TakeOwn ==
  ASSUME NEW h, IsHandler(h), NEW t, NEW d, NEW u, FromTarget(u), u # << >>, NEW held,
         NEW g, g = FinalizeRx(h, Head(u)), OwnLink(h, t, d, u, held),
         Head(u).type = "host_resp" => h.outgoing_request # None
  PROVE  OwnLink(g, t, d, Tail(u), held)
<1>1. Elems(Tail(u)) \subseteq Elems(u) /\ Head(u) \in Elems(u)
  BY TailElems DEF FromTarget
<1>2. OwnAnswers(Tail(u), h.outgoing_request)
  BY <1>1 DEF OwnLink, OwnAnswers
<1>3. CASE Head(u).type # "host_resp"
  <2>1. g.outgoing_request = h.outgoing_request /\ g.outgoing_response = h.outgoing_response
    BY <1>3 DEF FinalizeRx, IsResponse, IsHandler
  <2> QED BY <1>2, <2>1 DEF OwnLink
<1>4. CASE Head(u).type = "host_resp" /\ ~SameMeta(h.outgoing_request, Head(u).req)
  <2>1. g = h
    BY <1>4, Zenon DEF FinalizeRx, IsResponse
  <2> QED BY <1>2, <2>1 DEF OwnLink
<1>5. CASE Head(u).type = "host_resp" /\ SameMeta(h.outgoing_request, Head(u).req)
  <2>1. Head(u).req = h.outgoing_request /\ h.outgoing_request # None
    BY <1>1, <1>5 DEF OwnLink, OwnAnswers
  <2>2. g = [h EXCEPT !.outgoing_response = [req |-> Head(u).req, data |-> Head(u).data]]
    BY <1>5 DEF FinalizeRx, IsResponse
  <2>3. g.outgoing_request = h.outgoing_request /\ g.outgoing_response.req = Head(u).req
    BY <2>2 DEF IsHandler
  <2> QED BY <1>2, <2>1, <2>3 DEF OwnLink
<1> QED BY <1>3, <1>4, <1>5

\* A packet leaves the handler for a buffer.
LEMMA StartOwn ==
  ASSUME NEW h, IsHandler(h), NEW t, IsSeq(t), NEW d, NEW u, NEW held,
         NEW g, g = AfterTx(h), OwnLink(h, t, d, u, held)
  PROVE  OwnLink(g, t \o Encoded(h), d, u, held)
<1>1. PICK e, v : e = Encoded(h) /\ v = t \o e
  OBVIOUS
<1>2. IsSeq(e) /\ \A i \in 1 .. Len(e) : e[i].type = "host_req" => e[i].req = h.outgoing_request
  BY <1>1, EncodedHas
<1>3. OwnPackets(e, h.outgoing_request)
  BY <1>2 DEF OwnPackets, Elems
<1>4. Elems(v) \subseteq Elems(t) \cup Elems(e)
  BY <1>1, <1>2, ConcatElems
<1>5. OwnPackets(v, h.outgoing_request)
  BY <1>3, <1>4 DEF OwnPackets, OwnLink
<1>6. g.outgoing_request = h.outgoing_request /\ g.outgoing_response = h.outgoing_response
  BY StartOp
<1> QED BY <1>1, <1>5, <1>6 DEF OwnLink

\* Some of a buffer moves to the other one.
LEMMA SplitOwn ==
  ASSUME NEW h, NEW t, IsSeq(t), NEW d, IsSeq(d), NEW u, NEW held, NEW n \in 0 .. Len(t),
         OwnLink(h, t, d, u, held)
  PROVE  OwnLink(h, SubSeq(t, n + 1, Len(t)), d \o SubSeq(t, 1, n), u, held)
<1>1. PICK a, b : a = SubSeq(t, 1, n) /\ b = SubSeq(t, n + 1, Len(t))
  OBVIOUS
<1>2. PICK v : v = d \o a
  OBVIOUS
<1>3. Elems(a) \subseteq Elems(t) /\ Elems(b) \subseteq Elems(t)
  BY <1>1, SplitElems
<1>4. IsSeq(a)
  BY <1>1, SplitParted DEF Parted
<1>5. Elems(v) \subseteq Elems(d) \cup Elems(a)
  BY <1>2, <1>4, ConcatElems
<1>6. OwnLink(h, b, v, u, held)
  BY <1>3, <1>5 DEF OwnLink, OwnPackets
<1> QED BY <1>1, <1>2, <1>6

OwnInv == InTime => Past \/ OwnLink(handler, tx, toDev, toHost, dev.request)

\* A link with nothing of the host on it.
LEMMA FreeOwn ==
  ASSUME NEW h, NEW t, NEW d, NEW u, ~Has(t, "host_req"), ~Has(d, "host_req"), ~Has(u, "host_resp"),
         h.outgoing_response = NoResponse
  PROVE  OwnLink(h, t, d, u, None)
BY HasElems DEF OwnLink, OwnPackets, OwnAnswers

\* Nothing of the host's request has moved.
LEMMA StillOwn ==
  ASSUME OwnInv, UNCHANGED <<tx, toDev, toHost, dev>>, InTime' => InTime, Past => Past',
         handler'.outgoing_request = handler.outgoing_request,
         handler'.outgoing_response = handler.outgoing_response
  PROVE  OwnInv'
BY DEF OwnInv, OwnLink

\* Nothing fails twice, and what has failed stays so.
LEMMA Faults ==
  ASSUME LinkInv, [Next]_vars
  PROVE  /\ InTime' => InTime
         /\ FpgaTimeOut \/ SimTimeOut \/ Failure => ~InTime'
<1>1. count.faults \in Nat /\ DOMAIN count = {"ids", "commands", "faults", "botched", "cpu"}
  BY DEF LinkInv, Shaped
<1>2. FpgaTimeOut \/ SimTimeOut \/ Failure => ~InTime'
  <2> SUFFICES ASSUME FpgaTimeOut \/ SimTimeOut \/ Failure PROVE ~InTime'
    OBVIOUS
  <2>1. count'.faults = count.faults + 1
    <3>1. \/ count' = [count EXCEPT !.faults = @ + 1]
          \/ count' = [count EXCEPT !.faults = @ + 1, !.botched = @ \/ bg.resetting = "system"]
      BY DEF FpgaTimeOut, SimTimeOut, Failure, PortError, SimulationError, Fault
    <3> QED BY <1>1, <3>1
  <2> QED BY <1>1, <2>1 DEF InTime
<1>3. InTime' => InTime
  <2>1. CASE FpgaTimeOut \/ SimTimeOut \/ Failure
    BY <1>2, <2>1
  <2>2. CASE Client
    BY <1>1, <2>2, ClientFrame DEF InTime
  <2>3. CASE TxPackets
    BY <1>1, <2>3 DEF TxPackets, Fault, InTime
  <2>4. CASE CpuIssue
    BY <1>1, <2>4 DEF CpuIssue, InTime
  <2>0. CASE Command
    BY <1>1, <2>0, CommandCount DEF InTime
  <2>5. NoCommand \/ NoTimeOut \/ RxPacket \/ SimLink \/ Response \/ FpgaCpu
        \/ SimNoResponse \/ Settle \/ DevTake \/ DevServe \/ UNCHANGED vars => UNCHANGED count
    BY DEF NoCommand, NoTimeOut, RxPacket, SimLink, Response, FpgaCpu, SimNoResponse, Settle,
           DevTake, DevServe, vars
  <2>6. CASE UNCHANGED count
    BY <2>6 DEF InTime
  <2> QED BY <2>0, <2>1, <2>2, <2>3, <2>4, <2>5, <2>6 DEF Next, Thread
<1> QED BY <1>2, <1>3

\* As long as nothing fails there is one request of the host, before a reset of the system
\* has been sent.
LEMMA OneInTime ==
  ASSUME ThreadInv, LinkInv, InTime, ~Past
  PROVE  OneRequest(handler, tx, toDev, toHost, dev.request) \/ LeftOver
BY DEF LinkInv, HostRequest

\* A command is taken: a new request finds nothing of the last one.
LEMMA CommandOwn ==
  ASSUME ThreadInv, LinkInv, OwnInv, Command
  PROVE  OwnInv'
<1>1. ~Resetting /\ ~Past /\ InTime' = InTime
  <2>1. count'.faults = count.faults
    BY CommandCount DEF LinkInv, Shaped
  <2> QED BY <2>1 DEF Command, ThreadInv, Resetting, Past, InTime
<1>2. SUFFICES ASSUME InTime PROVE OwnInv'
  BY <1>1 DEF OwnInv
<1>3. OneRequest(handler, tx, toDev, toHost, dev.request) /\ OwnLink(handler, tx, toDev, toHost, dev.request)
  BY <1>1, <1>2, OneInTime DEF LeftOver, OwnInv
<1>4. PICK r, q : r = Head(commands).req /\ q = [r EXCEPT !.id = count.ids + 1]
  OBVIOUS
<1>5. CASE UNCHANGED <<handler, tx, toDev, toHost, dev>>
  BY <1>1, <1>5, StillOwn
<1>6. CASE /\ handler.outgoing_request = None /\ \E x \in {r, q} : handler' = SendRequest(handler, x)
           /\ UNCHANGED <<tx, toDev, toHost, dev>>
  <2>1. /\ ~Has(tx, "host_req") /\ ~Has(toDev, "host_req") /\ dev.request = None
        /\ ~Has(toHost, "host_resp") /\ handler.outgoing_response = NoResponse
    BY <1>3, <1>6 DEF OneRequest
  <2>2. handler'.outgoing_response = NoResponse
    BY <1>6, <2>1 DEF SendRequest, LinkInv, Shaped, IsHandler
  <2>3. OwnLink(handler', tx, toDev, toHost, None)
    BY <2>1, <2>2, FreeOwn
  <2> QED BY <1>6, <2>1, <2>3 DEF OwnInv
<1>7. CASE SimReset
  <2>1. /\ handler' = NewHandler /\ tx' = << >> /\ toDev' = << >> /\ toHost' = << >>
        /\ dev'.request = None
    BY <1>7 DEF SimReset, Booting
  <2>2. NewHandler.outgoing_response = NoResponse
    BY DEF NewHandler
  <2>3. OwnLink(NewHandler, << >>, << >>, << >>, None)
    BY <2>2, EmptySeq, FreeOwn
  <2> QED BY <2>1, <2>3 DEF OwnInv
<1>8. LocalCommand(r) \/ RtlCommand(r) \/ SimCommand(r) \/ FpgaReset(r)
        => \/ UNCHANGED handler
           \/ handler.outgoing_request = None /\ \E x \in {r, q} : handler' = SendRequest(handler, x)
  BY <1>4 DEF LocalCommand, RtlCommand, SimCommand, FpgaReset, Sendable
<1>9. \/ SimReset
      \/ /\ UNCHANGED <<link, dev>>
         /\ UNCHANGED handler \/ LocalCommand(r) \/ RtlCommand(r) \/ SimCommand(r) \/ FpgaReset(r)
  BY <1>4 DEF Command, FpgaReset
<1> QED BY <1>5, <1>6, <1>7, <1>8, <1>9 DEF link

\* A packet arrives.
LEMMA RxPacketOwn ==
  ASSUME ThreadInv, LinkInv, OwnInv, RxPacket
  PROVE  OwnInv'
<1>1. /\ UNCHANGED <<bg, tx, toDev, dev, count>> /\ bg.at = "link" /\ ~Past
      /\ toHost # << >> /\ handler' = FinalizeRx(handler, Head(toHost)) /\ toHost' = Tail(toHost)
  BY DEF RxPacket, Past
<1>2. SUFFICES ASSUME InTime PROVE OwnInv'
  BY <1>1 DEF OwnInv, InTime
<1>3. OwnLink(handler, tx, toDev, toHost, dev.request) /\ IsHandler(handler) /\ FromTarget(toHost)
  BY <1>1, <1>2 DEF OwnInv, LinkInv, Shaped
<1>4. Head(toHost).type = "host_resp" => handler.outgoing_request # None
  <2>1. Head(toHost).type = "host_resp" => Has(toHost, "host_resp")
    BY <1>1, <1>3, TailHas DEF FromTarget
  <2>2. CASE OneRequest(handler, tx, toDev, toHost, dev.request)
    BY <2>1, <2>2 DEF OneRequest
  <2>3. CASE LeftOver
    BY <2>3 DEF LeftOver, None, Request
  <2> QED BY <1>1, <1>2, <2>2, <2>3, OneInTime
<1>5. OwnLink(handler', tx, toDev, Tail(toHost), dev.request)
  BY <1>1, <1>3, <1>4, TakeOwn
<1> QED BY <1>1, <1>5 DEF OwnInv

\* The transmit buffer is filled, and the port takes some of it.
LEMMA TxPacketsOwn ==
  ASSUME ThreadInv, LinkInv, OwnInv, InTime, TxPackets
  PROVE  OwnInv'
<1>1. PICK h, s, full :
           h = AfterTx(handler) /\ s = tx \o Encoded(handler) /\ full = s \o Encoded(h)
  OBVIOUS
<1>2. /\ UNCHANGED <<dev, toHost>> /\ bg.at = "link" /\ ~Past /\ handler' = AfterTx(h)
  BY <1>1 DEF TxPackets, Past
<1>3. PICK n \in 0 .. Len(full) :
           toDev' = toDev \o SubSeq(full, 1, n) /\ tx' = SubSeq(full, n + 1, Len(full))
  BY <1>1 DEF TxPackets
<1>4. PICK g : g = AfterTx(h)
  OBVIOUS
<1>5. IsHandler(handler) /\ IsSeq(tx) /\ IsSeq(toDev)
  BY DEF LinkInv, Shaped
<1>6. OwnLink(handler, tx, toDev, toHost, dev.request)
  BY <1>2 DEF OwnInv
<1>7. IsHandler(h) /\ IsSeq(s) /\ OwnLink(h, s, toDev, toHost, dev.request)
  BY <1>1, <1>5, <1>6, StartOp, StartOwn
<1>8. IsHandler(g) /\ IsSeq(full) /\ OwnLink(g, full, toDev, toHost, dev.request)
  BY <1>1, <1>4, <1>7, StartOp, StartOwn
<1>9. OwnLink(g, SubSeq(full, n + 1, Len(full)), toDev \o SubSeq(full, 1, n), toHost, dev.request)
  BY <1>5, <1>8, SplitOwn
<1> QED BY <1>2, <1>3, <1>4, <1>9 DEF OwnInv

\* A step of the simulator's link.
LEMMA SimLinkOwn ==
  ASSUME ThreadInv, LinkInv, OwnInv, SimLink
  PROVE  OwnInv' /\ handler'.outgoing_request = handler.outgoing_request
<1>1. /\ UNCHANGED <<tx, dev, count>> /\ bg.at = "link" /\ ~Past /\ ~Resetting
  BY DEF SimLink, Past, ThreadInv, Resetting
<1>2. PICK take, send, ready, h, e, sent, accepted, g, u, v :
        /\ take => toHost # << >> /\ CanTake(handler, Head(toHost))
        /\ h = (IF take THEN FinalizeRx(handler, Head(toHost)) ELSE handler)
        /\ e = Encoded(h)
        /\ sent = (IF send THEN AfterTx(h) ELSE h)
        /\ accepted = (IF HasIncoming(sent) THEN Accept(sent) ELSE sent)
        /\ g = (IF ready THEN Complete(accepted) ELSE accepted)
        /\ u = (IF take THEN Tail(toHost) ELSE toHost)
        /\ v = (IF send THEN toDev \o e ELSE toDev)
        /\ handler' = g /\ toHost' = u /\ toDev' = v
  BY SimLinkStep
<1>3. IsHandler(handler) /\ IsSeq(tx) /\ IsSeq(toDev) /\ FromTarget(toHost)
  BY DEF LinkInv, Shaped
<1>4. IsHandler(h) /\ h.outgoing_request = handler.outgoing_request
  BY <1>2, <1>3, TakeOp
<1>5. IsHandler(sent) /\ sent.outgoing_request = h.outgoing_request
  BY <1>2, <1>3, <1>4, StartOp
<1>6. /\ IsHandler(accepted) /\ accepted.outgoing_request = sent.outgoing_request
      /\ accepted.outgoing_response = sent.outgoing_response
  BY <1>2, <1>5, AcceptOp
<1>7. g.outgoing_request = accepted.outgoing_request /\ g.outgoing_response = accepted.outgoing_response
  <2>1. CASE ready
    <3>1. g = Complete(accepted)
      BY <1>2, <2>1
    <3> QED BY <1>6, <3>1, CompleteOp
  <2>2. CASE ~ready
    BY <1>2, <2>2
  <2> QED BY <2>1, <2>2
<1>8. SUFFICES ASSUME InTime PROVE OwnInv'
  BY <1>1, <1>2, <1>4, <1>5, <1>6, <1>7 DEF OwnInv, InTime
<1>9. /\ OwnLink(handler, tx, toDev, toHost, dev.request)
      /\ OneRequest(handler, tx, toDev, toHost, dev.request)
  BY <1>1, <1>8, OneInTime DEF OwnInv, LeftOver
<1>10. OwnLink(h, tx, toDev, u, dev.request)
  <2>1. CASE take
    <3>1. Head(toHost).type = "host_resp" => handler.outgoing_request # None
      BY <1>2, <1>3, <1>9, <2>1, TailHas DEF FromTarget, OneRequest
    <3> QED BY <1>2, <1>3, <1>9, <2>1, <3>1, TakeOwn
  <2> QED BY <1>2, <1>9, <2>1
<1>11. OwnLink(sent, tx, v, u, dev.request)
  <2>1. CASE send
    <3>1. OwnLink(h, toDev, tx, u, dev.request)
      BY <1>10 DEF OwnLink
    <3>2. OwnLink(sent, v, tx, u, dev.request)
      BY <1>2, <1>3, <1>4, <2>1, <3>1, StartOwn
    <3> QED BY <3>2 DEF OwnLink
  <2> QED BY <1>2, <1>10, <2>1
<1>12. OwnLink(g, tx, v, u, dev.request)
  BY <1>6, <1>7, <1>11 DEF OwnLink
<1> QED BY <1>1, <1>2, <1>12 DEF OwnInv

\* A response leaves the handler: there was nothing else of the host.
LEMMA ResponseOwn ==
  ASSUME ThreadInv, LinkInv, OwnInv, Response
  PROVE  OwnInv'
<1>1. /\ UNCHANGED <<tx, toDev, toHost, dev, count>> /\ bg.at = "response"
      /\ \/ UNCHANGED handler
         \/ handler' = ReceiveResponse(handler) /\ handler.outgoing_response # NoResponse
      /\ PassDone \/ (ResetOver(TRUE) /\ bg.resetting = "cpu")
  BY DEF Response, link, Available, HasResponse
<1>2. Past => Past'
  BY <1>1 DEF PassDone, Past, Resetting, ThreadInv
<1>3. CASE UNCHANGED handler
  BY <1>1, <1>2, <1>3, StillOwn DEF InTime
<1>4. CASE handler' = ReceiveResponse(handler) /\ handler.outgoing_response # NoResponse
  <2>1. SUFFICES ASSUME InTime, ~Past PROVE OwnInv'
    BY <1>1, <1>2 DEF OwnInv, InTime
  <2>2. OneRequest(handler, tx, toDev, toHost, dev.request)
    BY <1>4, <2>1, OneInTime DEF LeftOver
  <2>3. /\ ~Has(tx, "host_req") /\ ~Has(toDev, "host_req") /\ dev.request = None
        /\ ~Has(toHost, "host_resp")
    BY <1>4, <2>2 DEF OneRequest
  <2>4. handler'.outgoing_response = NoResponse
    BY <1>4 DEF ReceiveResponse, LinkInv, Shaped, IsHandler
  <2>5. OwnLink(handler', tx, toDev, toHost, None)
    BY <2>3, <2>4, FreeOwn
  <2> QED BY <1>1, <2>3, <2>5 DEF OwnInv
<1> QED BY <1>1, <1>3, <1>4

\* The request of the CPU is answered.
LEMMA FpgaCpuOwn ==
  ASSUME ThreadInv, LinkInv, OwnInv, FpgaCpu
  PROVE  OwnInv' /\ handler'.outgoing_request = handler.outgoing_request
<1>1. /\ UNCHANGED <<tx, toDev, toHost, dev, count>> /\ bg.at = "response" /\ PassDone
      /\ UNCHANGED handler \/ (HasIncoming(handler) /\ handler' = Complete(Accept(handler)))
  BY DEF FpgaCpu, link
<1>2. Past => Past'
  BY <1>1 DEF PassDone, Past, Resetting, ThreadInv
<1>3. IsHandler(handler)
  BY DEF LinkInv, Shaped
<1>4. PICK h, g : /\ h = (IF HasIncoming(handler) THEN Accept(handler) ELSE handler)
                  /\ g = Complete(h)
  OBVIOUS
<1>5. /\ IsHandler(h) /\ h.outgoing_request = handler.outgoing_request
      /\ h.outgoing_response = handler.outgoing_response
  BY <1>3, <1>4, AcceptOp
<1>6. g.outgoing_request = h.outgoing_request /\ g.outgoing_response = h.outgoing_response
  BY <1>4, <1>5, CompleteOp
<1>7. /\ handler'.outgoing_request = handler.outgoing_request
      /\ handler'.outgoing_response = handler.outgoing_response
  BY <1>1, <1>4, <1>5, <1>6
<1> QED BY <1>1, <1>2, <1>7, StillOwn DEF InTime

\* After a reset of the system nothing is left.
LEMMA SettleOwn ==
  ASSUME Settle
  PROVE  OwnInv'
<1>1. /\ handler' = NewHandler /\ tx' = << >> /\ toDev' = << >> /\ toHost' = << >> /\ dev'.request = None
  BY DEF Settle
<1>2. NewHandler.outgoing_response = NoResponse
  BY DEF NewHandler
<1>3. OwnLink(NewHandler, << >>, << >>, << >>, None)
  BY <1>2, EmptySeq, FreeOwn
<1> QED BY <1>1, <1>3 DEF OwnInv

\* The program asks for the host's memory.
LEMMA CpuIssueOwn ==
  ASSUME LinkInv, OwnInv, CpuIssue
  PROVE  OwnInv'
<1>1. PICK x : /\ x = Packet("cpu_req", Request(count.cpu + 1, FALSE, RTL_END, 4, 1, 0), << >>)
               /\ toHost' = Append(toHost, x)
  BY DEF CpuIssue
<1>2. /\ UNCHANGED <<bg, handler, tx, toDev>> /\ dev' = [dev EXCEPT !.cpu_wait_resp = TRUE]
      /\ count' = [count EXCEPT !.cpu = @ + 1]
  BY DEF CpuIssue
<1>3. x.type = "cpu_req" /\ IsSeq(toHost)
  BY <1>1 DEF Packet, LinkInv, Shaped, FromTarget
<1>4. PICK u : u = Append(toHost, x)
  OBVIOUS
<1>5. Elems(u) = Elems(toHost) \cup {x}
  BY <1>3, <1>4, AppendElems
<1>6. dev'.request = dev.request /\ count'.faults = count.faults
  BY <1>2 DEF LinkInv, Shaped
<1>7. OwnLink(handler, tx, toDev, toHost, dev.request) => OwnLink(handler, tx, toDev, u, dev.request)
  BY <1>3, <1>5 DEF OwnLink, OwnAnswers
<1>8. Past' = Past
  BY <1>2 DEF Past, Resetting
<1> QED BY <1>1, <1>2, <1>4, <1>6, <1>7, <1>8 DEF OwnInv, InTime

\* The target takes a packet.
LEMMA DevTakeOwn ==
  ASSUME LinkInv, OwnInv, DevTake
  PROVE  OwnInv'
<1>1. PICK pkt, v : pkt = Head(toDev) /\ v = Tail(toDev)
  OBVIOUS
<1>2. /\ UNCHANGED <<bg, handler, tx, toHost, count>> /\ toDev # << >> /\ toDev' = v
      /\ \/ dev' = [dev EXCEPT !.cpu_wait_resp = FALSE]
         \/ pkt.type = "host_req" /\ dev' = [dev EXCEPT !.request = pkt.req]
  BY <1>1 DEF DevTake
<1>3. DOMAIN dev = {"cpu_wait_resp", "request", "booting"} /\ IsSeq(toDev)
  BY DEF LinkInv, Shaped
<1>4. Elems(toDev) = Elems(v) \cup {pkt}
  BY <1>1, <1>2, <1>3, TailElems
<1>5. dev'.request = dev.request \/ (pkt.type = "host_req" /\ dev'.request = pkt.req)
  BY <1>2, <1>3
<1>6. OwnLink(handler, tx, toDev, toHost, dev.request) => OwnLink(handler, tx, v, toHost, dev'.request)
  BY <1>4, <1>5 DEF OwnLink, OwnPackets
<1>7. Past' = Past /\ InTime' = InTime
  BY <1>2 DEF Past, Resetting, InTime
<1> QED BY <1>2, <1>6, <1>7 DEF OwnInv

\* The request in hand is answered, but for a reset of the system that leaves no answer.
LEMMA Served ==
  ASSUME LinkInv, DevServe
  PROVE  /\ dev'.request = None
         /\ \/ toHost' = toHost
            \/ \E x : x.type = "host_resp" /\ x.req = dev.request /\ toHost' = Append(toHost, x)
<1>1. DOMAIN dev = {"cpu_wait_resp", "request", "booting"}
  BY DEF LinkInv, Shaped
<1>2. ASSUME NEW data, NEW d, "request" \in DOMAIN d, Serve(data, d)
      PROVE  /\ dev'.request = None
             /\ \E x : x.type = "host_resp" /\ x.req = dev.request /\ toHost' = Append(toHost, x)
  <2>1. PICK x : x = Packet("host_resp", dev.request, data)
    OBVIOUS
  <2>2. x.type = "host_resp" /\ x.req = dev.request
    BY <2>1 DEF Packet
  <2> QED BY <1>2, <2>1, <2>2 DEF Serve
<1>3. CASE Serve(<< >>, [dev EXCEPT !.booting = TRUE])
  <2>1. "request" \in DOMAIN [dev EXCEPT !.booting = TRUE]
    BY <1>1
  <2> QED BY <1>2, <1>3, <2>1
<1>4. CASE Serve(<< >>, Booting)
  <2>1. "request" \in DOMAIN Booting
    BY DEF Booting
  <2> QED BY <1>2, <1>4, <2>1
<1>5. CASE dev' = Booting /\ UNCHANGED toHost
  BY <1>5 DEF Booting
<1>6. CASE Serve(<< >>, [dev EXCEPT !.booting = FALSE])
  <2>1. "request" \in DOMAIN [dev EXCEPT !.booting = FALSE]
    BY <1>1
  <2> QED BY <1>2, <1>6, <2>1
<1>7. CASE \E data : Serve(data, dev)
  BY <1>1, <1>2, <1>7
<1> QED BY <1>3, <1>4, <1>5, <1>6, <1>7 DEF DevServe

\* What the target sends is the response to the request in hand.
LEMMA DevServeOwn ==
  ASSUME LinkInv, OwnInv, DevServe
  PROVE  OwnInv'
<1>1. UNCHANGED <<bg, handler, tx, toDev, count>> /\ dev.request # None
  BY DEF DevServe
<1>2. DOMAIN dev = {"cpu_wait_resp", "request", "booting"} /\ IsSeq(toHost)
  BY DEF LinkInv, Shaped, FromTarget
<1>3. /\ dev'.request = None
      /\ \/ toHost' = toHost
         \/ \E x : x.type = "host_resp" /\ x.req = dev.request /\ toHost' = Append(toHost, x)
  BY Served
<1>4. PICK u : u = toHost'
  OBVIOUS
<1>5. CASE u = toHost
  <2>1. OwnLink(handler, tx, toDev, toHost, dev.request) => OwnLink(handler, tx, toDev, u, None)
    BY <1>5 DEF OwnLink
  <2> QED BY <1>1, <1>3, <1>4, <2>1 DEF OwnInv, Past, Resetting, InTime
<1>6. ASSUME NEW x, x.type = "host_resp", x.req = dev.request, u = Append(toHost, x)
      PROVE  OwnInv'
  <2>1. Elems(u) = Elems(toHost) \cup {x}
    BY <1>2, <1>6, AppendElems
  <2>2. OwnLink(handler, tx, toDev, toHost, dev.request) => OwnLink(handler, tx, toDev, u, None)
    BY <1>1, <1>6, <2>1 DEF OwnLink, OwnAnswers
  <2> QED BY <1>1, <1>3, <1>4, <2>2 DEF OwnInv, Past, Resetting, InTime
<1> QED BY <1>3, <1>4, <1>5, <1>6

\* A runtime starts with nothing of its own on the link; a response of an earlier session is
\* not taken for that of a reset.
LEMMA InitOwn == Init => OwnInv
<1> SUFFICES ASSUME Init, InTime PROVE OwnLink(handler, tx, toDev, toHost, dev.request)
  BY DEF OwnInv
<1>1. ThreadInv /\ LinkInv
  BY InitInv DEF IInv
<1>2. /\ tx = << >> /\ toDev = << >> /\ dev.request = None /\ ~handler.tx_started
      /\ handler.outgoing_response = NoResponse /\ bg.at \in {"command", "timeout"}
  <2>1. /\ NewHandler.outgoing_response = NoResponse /\ ~NewHandler.tx_started
        /\ \A r : /\ SendRequest(NewHandler, r).outgoing_response = NoResponse
                  /\ ~SendRequest(NewHandler, r).tx_started
    BY DEF NewHandler, SendRequest
  <2>2. CASE backend = "sim"
    BY <2>1, <2>2 DEF Init, Create, Booting
  <2>3. CASE backend # "sim"
    <3>1. PICK startup \in Startups, left \in Leftovers : Connect(startup, left)
      BY <2>3 DEF Init
    <3>2. left.target.request = None
      BY LeftoversKnown DEF LeftTarget
    <3>3. \/ handler = NewHandler
          \/ \E r : handler = SendRequest(NewHandler, r)
      BY <3>1 DEF Connect
    <3>4. dev = left.target /\ bg.at \in {"command", "timeout"}
      <4>1. startup \in {"none", "connect_cpu", "connect_system"}
        BY DEF Startups, Connecting
      <4> QED BY <3>1, <4>1 DEF Connect
    <3> QED BY <2>1, <3>2, <3>3, <3>4 DEF Init
  <2> QED BY <2>2, <2>3
<1>3. ~Has(tx, "host_req") /\ ~Has(toDev, "host_req") /\ ~Past
  BY <1>2, EmptySeq DEF Past
<1>4. CASE OneRequest(handler, tx, toDev, toHost, dev.request)
  <2>1. ~Has(toHost, "host_resp")
    BY <1>2, <1>4 DEF OneRequest
  <2> QED BY <1>2, <1>3, <2>1, FreeOwn
<1>5. CASE LeftOver
  <2>1. OwnAnswers(toHost, handler.outgoing_request)
    <3>1. \A x \in Elems(toHost) : x.type = "host_resp" => x.req.write = FALSE
      BY <1>5 DEF LeftOver, Elems
    <3>2. handler.outgoing_request.write = TRUE
      BY <1>5 DEF LeftOver
    <3> QED BY <3>1, <3>2 DEF OwnAnswers, SameMeta
  <2>2. OwnPackets(tx, handler.outgoing_request) /\ OwnPackets(toDev, handler.outgoing_request)
    BY <1>3, HasElems DEF OwnPackets
  <2> QED BY <1>2, <2>1, <2>2 DEF OwnLink
<1> QED BY <1>1, <1>3, <1>4, <1>5, OneInTime

\* Every step keeps it.
LEMMA OwnStep == IInv /\ OwnInv /\ [Next]_vars => OwnInv'
<1> SUFFICES ASSUME IInv, OwnInv, [Next]_vars PROVE OwnInv'
  OBVIOUS
<1>1. ThreadInv /\ LinkInv
  BY DEF IInv
<1>2. (InTime' => InTime) /\ (FpgaTimeOut \/ SimTimeOut \/ Failure => ~InTime')
  BY <1>1, Faults
<1>3. CASE FpgaTimeOut \/ SimTimeOut \/ Failure
  BY <1>2, <1>3 DEF OwnInv
<1>4. CASE Client
  <2>1. UNCHANGED <<bg, handler, tx, toDev, toHost, dev>>
    BY <1>4, ClientFrame
  <2> QED BY <1>2, <2>1, StillOwn DEF Past, Resetting
<1>5. CASE Command
  BY <1>1, <1>5, CommandOwn
<1>6. CASE NoCommand \/ NoTimeOut \/ SimNoResponse
  <2>1. UNCHANGED <<handler, tx, toDev, toHost, dev>>
    BY <1>6 DEF NoCommand, NoTimeOut, SimNoResponse, link
  <2>2. ~Past
    BY <1>1, <1>6 DEF NoCommand, NoTimeOut, SimNoResponse, Past, Resetting, ThreadInv
  <2> QED BY <1>2, <2>1, <2>2, StillOwn
<1>7. CASE RxPacket
  BY <1>1, <1>7, RxPacketOwn
<1>8. CASE TxPackets
  BY <1>1, <1>2, <1>8, TxPacketsOwn DEF OwnInv
<1>9. CASE SimLink
  BY <1>1, <1>9, SimLinkOwn
<1>10. CASE Response
  BY <1>1, <1>10, ResponseOwn
<1>11. CASE FpgaCpu
  BY <1>1, <1>11, FpgaCpuOwn
<1>12. CASE Settle
  BY <1>12, SettleOwn
<1>13. CASE CpuIssue
  BY <1>1, <1>13, CpuIssueOwn
<1>14. CASE DevTake
  BY <1>1, <1>14, DevTakeOwn
<1>15. CASE DevServe
  BY <1>1, <1>15, DevServeOwn
<1>16. CASE UNCHANGED vars
  <2>1. UNCHANGED <<bg, handler, tx, toDev, toHost, dev>>
    BY <1>16 DEF vars, link
  <2> QED BY <1>2, <2>1, StillOwn DEF Past, Resetting
<1> QED BY <1>3, <1>4, <1>5, <1>6, <1>7, <1>8, <1>9, <1>10, <1>11, <1>12, <1>13, <1>14, <1>15, <1>16
        DEF Next, Thread

\* A request is on its way to the background thread.
Waiting == main.at = "enqueue" \/ Has(commands, "send")

\* The client, its command, the pending request and the handler mean the same one.
OnePending ==
  /\ AtMostOne(commands, "send") /\ AtMostOne(commands, "reset")
  /\ main.at = "enqueue" => main.req = pending /\ ~Has(commands, "send")
  /\ \A c \in Elems(commands) : c.type = "send" => c.req = pending
  /\ Waiting => pending # None /\ handler.outgoing_request = None /\ direct = NoResponse
  /\ handler.outgoing_request # None =>
       direct = NoResponse /\ (Resetting \/ handler.outgoing_request = pending)
  /\ direct # NoResponse => direct.req = pending /\ pending # None
  /\ Has(commands, "reset") => pending = None /\ main.at = "wait_reset"
  /\ bg.resetting # "no" => main.at = "wait_reset" /\ ~Has(commands, "reset")
  /\ Resetting => /\ pending = None
                  /\ handler.outgoing_request # None => SysReset(handler.outgoing_request)
  /\ bg.resetting = "cpu" => ResetRequest(pending) /\ pending # None
  /\ bg.at = "ended" \/ Has(commands, "shutdown") => main.at \in {"join", "gone"}

PendingInv == InTime => OnePending

\* Where a command of the client goes on when a request, or all of it, is over.
LEMMA MainAt ==
  ASSUME ClientInv, NEW result, NEW data
  PROVE  /\ Finish(result).at = "idle" /\ Failed.at \in {"idle", "gone"}
         /\ Advance(data).at \in {"idle", "next"}
<1>1. DOMAIN main = {"at", "cmd", "call", "offset", "data", "req", "region", "result", "fresh"}
  BY DEF ClientInv
<1>2. /\ \A x : Finish(x).at = "idle" /\ DOMAIN Finish(x) = DOMAIN main
      /\ \A x, y : [Finish(x) EXCEPT !.data = y].at = "idle"
  BY <1>1 DEF Finish
<1>3. Failed.at \in {"idle", "gone"}
  BY <1>1, <1>2 DEF Failed
<1>4. /\ \A x, y : [main EXCEPT !.at = "next", !.offset = x, !.data = y].at = "next"
      /\ \A x : [main EXCEPT !.at = "next", !.call = @ + 1, !.offset = 0, !.data = x].at = "next"
  BY <1>1
<1>5. Advance(data).at \in {"idle", "next"}
  BY <1>2, <1>4 DEF Advance
<1> QED BY <1>2, <1>3, <1>5

LEMMA ReportAt ==
  ASSUME ClientInv, Reported
  PROVE  /\ main.at # "wait_reset" => main' = main
         /\ main.at = "wait_reset" => main'.at \in {"wait_reset", "idle", "gone", "drain", "next"}
<1>1. main.at # "wait_reset" => main' = main
  BY DEF Reported, ReportReset, Awaited
<1>2. main' \in {main, Failed, [main EXCEPT !.at = "drain"], Advance(<< >>)}
  BY DEF Reported, ReportReset
<1>3. [main EXCEPT !.at = "drain"].at = "drain"
  BY DEF ClientInv
<1> QED BY <1>1, <1>2, <1>3, MainAt

\* The steps that take no part in it.
LEMMA FramePending ==
  ASSUME OnePending, UNCHANGED <<main, commands, pending, direct>>,
         bg'.resetting = bg.resetting, bg'.at = "ended" => bg.at = "ended",
         handler'.outgoing_request = handler.outgoing_request
  PROVE  OnePending'
BY DEF OnePending, Waiting, Resetting

\* The client goes from one of its own places to another.
LEMMA MovePending ==
  ASSUME OnePending, UNCHANGED <<commands, pending, direct, bg, handler>>,
         main.at \notin {"enqueue", "wait_reset"}, main'.at # "enqueue",
         main.at \in {"join", "gone"} => main'.at \in {"join", "gone"}
  PROVE  OnePending'
BY DEF OnePending, Waiting, Resetting

\* The thread of the client: a request is made when none is pending (send_host_request).
LEMMA ClientPending ==
  ASSUME ClientInv, CommandsInv, OnePending, Client
  PROVE  OnePending'
<1>1. /\ UNCHANGED <<bg, handler, direct>> /\ Resetting' = Resetting
  BY ClientFrame DEF Resetting
<1>2. DOMAIN main = {"at", "cmd", "call", "offset", "data", "req", "region", "result", "fresh"}
  BY DEF ClientInv
<1>3. /\ IsSeq(commands)
      /\ Has(commands, "send") <=> \E c \in Elems(commands) : c.type = "send"
  BY HasElems DEF CommandsInv
<1>4. main.at # "wait_reset" => ~Has(commands, "reset") /\ ~Resetting /\ bg.resetting = "no"
  BY DEF OnePending, Resetting
<1>5. ASSUME NEW cmd \in COMMANDS,
             NEW region \in IF Regional(cmd) THEN REGIONS ELSE {NoRegion}, Start(cmd, region)
      PROVE  OnePending'
  <2>1. PICK m : m = [Idle EXCEPT !.cmd = cmd, !.region = region, !.fresh = events = << >>]
    OBVIOUS
  <2>2. m.at = "idle" /\ DOMAIN m = {"at", "cmd", "call", "offset", "data", "req", "region", "result", "fresh"}
    BY <2>1 DEF Idle
  <2>3. /\ main' \in {[m EXCEPT !.result = "refused"], [m EXCEPT !.at = "next"]}
        /\ UNCHANGED <<commands, pending>> /\ main.at = "idle"
    BY <1>5, <2>1 DEF Start
  <2>4. main'.at \in {"idle", "next"}
    BY <2>2, <2>3
  <2> QED BY <1>1, <2>3, <2>4, MovePending
<1>6. CASE Arm
  <2>1. main.at = "next" /\ UNCHANGED commands
    BY <1>6 DEF Arm
  <2>2. CASE main' = Finish("refused") /\ UNCHANGED pending
    BY <1>1, <2>1, <2>2, MainAt, MovePending
  <2>3. CASE /\ pending = None /\ pending' = NextRequest
             /\ main' = [main EXCEPT !.at = "enqueue", !.req = NextRequest]
    <3>1. main'.at = "enqueue" /\ main'.req = NextRequest
      BY <1>2, <2>3
    <3>2. NextRequest # None
      <4>1. NextRequest.size \in Nat \ {0}
        BY <1>6, NextKnown DEF Arm
      <4> QED BY <4>1 DEF None, Request
    <3>3. ~Has(commands, "send") /\ direct = NoResponse
      BY <2>3 DEF OnePending, Waiting
    <3>4. handler.outgoing_request = None
      BY <1>4, <2>1, <2>3 DEF OnePending
    <3> QED BY <1>1, <1>3, <1>4, <2>1, <2>3, <3>1, <3>2, <3>3, <3>4 DEF OnePending, Waiting
  <2> QED BY <1>6, <2>2, <2>3 DEF Arm, MayArm
<1>7. CASE Enqueue
  <2>1. main.at = "enqueue"
    BY <1>7 DEF Enqueue
  <2>2. /\ ~Has(commands, "send") /\ ~Has(commands, "reset") /\ ~Resetting /\ main.req = pending
        /\ pending # None /\ handler.outgoing_request = None /\ direct = NoResponse
        /\ bg.at # "ended" /\ ~Has(commands, "shutdown") /\ bg.resetting = "no"
    BY <1>4, <2>1 DEF OnePending, Waiting
  <2>4. CASE /\ commands' = Append(commands, [type |-> "send", req |-> main.req])
             /\ main' \in {Finish("done"), [main EXCEPT !.at = "poll"]} /\ UNCHANGED pending
    <3>1. PICK c, u : c = [type |-> "send", req |-> main.req] /\ u = Append(commands, c)
      OBVIOUS
    <3>2. c.type = "send" /\ c.req = pending
      BY <2>2, <3>1
    <3>3. /\ Has(u, "send") /\ AtMostOne(u, "send") /\ ~Has(u, "reset") /\ AtMostOne(u, "reset")
          /\ ~Has(u, "shutdown")
      BY <1>3, <2>2, <3>1, <3>2, AppendHas DEF OnePending
    <3>4. Elems(u) = Elems(commands) \cup {c}
      BY <1>3, <3>1, AppendElems
    <3>5. main'.at \in {"idle", "poll"}
      <4>1. [main EXCEPT !.at = "poll"].at = "poll"
        BY <1>2
      <4> QED BY <2>4, <4>1, MainAt
    <3>6. commands' = u
      BY <2>4, <3>1
    <3> QED BY <1>1, <1>3, <2>2, <2>4, <3>2, <3>3, <3>4, <3>5, <3>6 DEF OnePending, Waiting
  <2> QED BY <1>7, <2>2, <2>4 DEF Enqueue
<1>8. CASE AskReset
  <2>1. main.at = "next" /\ UNCHANGED pending
    BY <1>8 DEF AskReset
  <2>2. CASE main' \in {Finish("refused"), Finish("failed")} /\ UNCHANGED commands
    <3>1. main'.at = "idle"
      BY <2>2, MainAt
    <3> QED BY <1>1, <2>1, <2>2, <3>1, MovePending
  <2>3. CASE /\ pending = None
             /\ commands' = Append(commands, [type |-> "reset", req |-> NextRequest])
             /\ main' = [main EXCEPT !.at = "wait_reset", !.req = NextRequest]
    <3>1. PICK c, u : c = [type |-> "reset", req |-> NextRequest] /\ u = Append(commands, c)
      OBVIOUS
    <3>2. c.type = "reset" /\ main'.at = "wait_reset"
      BY <1>2, <2>3, <3>1
    <3>3. ~Has(commands, "send") /\ ~Has(commands, "reset") /\ ~Resetting
      BY <1>4, <2>1, <2>3 DEF OnePending, Waiting
    <3>4. ~Has(u, "send") /\ AtMostOne(u, "send") /\ AtMostOne(u, "reset") /\ ~Has(u, "shutdown")
      BY <1>3, <2>1, <3>1, <3>2, <3>3, AppendHas DEF OnePending
    <3>5. \A x \in Elems(u) : x.type # "send"
      BY <3>4, HasElems
    <3>6. commands' = u
      BY <2>3, <3>1
    <3> QED BY <1>1, <1>4, <2>1, <2>3, <3>2, <3>3, <3>4, <3>5, <3>6 DEF OnePending, Waiting
  <2> QED BY <1>8, <2>2, <2>3 DEF AskReset
<1>9. CASE Poll
  <2>1. main.at = "poll" /\ UNCHANGED <<commands, pending>>
    BY <1>9 DEF Poll
  <2>2. \/ main' \in {Finish("refused"), Finish("failed")} \/ UNCHANGED main
        \/ main' = Advance(Head(events).data)
    BY <1>9 DEF Poll
  <2>3. main'.at # "enqueue"
    BY <2>1, <2>2, MainAt
  <2> QED BY <1>1, <2>1, <2>3, MovePending
<1>10. CASE IdlePoll
  <2>1. /\ main.at = "idle" /\ UNCHANGED <<commands, pending>>
        /\ UNCHANGED main \/ main' = [main EXCEPT !.at = "join"]
    BY <1>10 DEF IdlePoll
  <2>2. main'.at # "enqueue"
    BY <1>2, <2>1
  <2> QED BY <1>1, <2>1, <2>2, MovePending
<1>11. CASE Disconnect
  <2>1. PICK c, u : c = [type |-> "shutdown", req |-> None] /\ u = Append(commands, c)
    OBVIOUS
  <2>2. /\ main.at = "next" /\ main' = [main EXCEPT !.at = "join"] /\ commands' = u /\ UNCHANGED pending
    BY <1>11, <2>1 DEF Disconnect
  <2>3. main'.at = "join" /\ c.type = "shutdown"
    BY <1>2, <2>1, <2>2
  <2>4. /\ Has(u, "send") <=> Has(commands, "send")
        /\ Has(u, "reset") <=> Has(commands, "reset")
        /\ AtMostOne(u, "send") /\ AtMostOne(u, "reset")
    BY <1>3, <2>1, <2>3, AppendHas DEF OnePending
  <2>5. Elems(u) = Elems(commands) \cup {c}
    BY <1>3, <2>1, AppendElems
  <2> QED BY <1>1, <1>4, <2>2, <2>3, <2>4, <2>5 DEF OnePending, Waiting
<1>12. CASE Join
  <2>1. main.at = "join" /\ UNCHANGED <<commands, pending>> /\ main' = [Finish("done") EXCEPT !.at = "gone"]
    BY <1>12 DEF Join
  <2>2. main'.at = "gone"
    BY <1>2, <2>1 DEF Finish
  <2> QED BY <1>1, <2>1, <2>2, MovePending
<1>13. CASE Drain
  <2>1. /\ main.at = "drain" /\ UNCHANGED <<commands, pending>>
        /\ UNCHANGED main \/ main' = Advance(<< >>)
    BY <1>13 DEF Drain
  <2>2. main'.at # "enqueue"
    BY <2>1, MainAt
  <2> QED BY <1>1, <2>1, <2>2, MovePending
<1>14. CASE GiveUpReset
  BY <1>14 DEF GiveUpReset, OnePending
<1> QED BY <1>5, <1>6, <1>7, <1>8, <1>9, <1>10, <1>11, <1>12, <1>13, <1>14 DEF Client

\* What the first command says of the others.
LEMMA FirstCommand ==
  ASSUME CommandsInv, commands # << >>, OnePending, NEW c, c = Head(commands), NEW u, u = Tail(commands)
  PROVE  /\ Elems(u) \subseteq Elems(commands)
         /\ AtMostOne(u, "send") /\ AtMostOne(u, "reset")
         /\ Has(u, "send") => Has(commands, "send")
         /\ Has(u, "reset") => Has(commands, "reset")
         /\ c.type = "send" => c.req = pending /\ Has(commands, "send") /\ ~Has(u, "send")
         /\ c.type = "reset" => Has(commands, "reset") /\ ~Has(u, "reset")
         /\ Has(u, "shutdown") \/ c.type = "shutdown" => Has(commands, "shutdown")
         /\ Sent(c)
<1>1. IsSeq(commands)
  BY DEF CommandsInv
<1>2. Elems(commands) = Elems(u) \cup {c}
  BY <1>1, TailElems
<1>3. /\ Has(commands, "send") <=> Has(u, "send") \/ c.type = "send"
      /\ AtMostOne(commands, "send") => AtMostOne(u, "send") /\ (c.type = "send" => ~Has(u, "send"))
  BY <1>1, TailHas
<1>4. /\ Has(commands, "reset") <=> Has(u, "reset") \/ c.type = "reset"
      /\ AtMostOne(commands, "reset") => AtMostOne(u, "reset") /\ (c.type = "reset" => ~Has(u, "reset"))
  BY <1>1, TailHas
<1>5. Has(commands, "shutdown") <=> Has(u, "shutdown") \/ c.type = "shutdown"
  BY <1>1, TailHas
<1>6. Sent(c)
  <2>1. c \in Elems(commands)
    BY <1>2
  <2> QED BY <2>1 DEF CommandsInv, Elems
<1> QED BY <1>2, <1>3, <1>4, <1>5, <1>6 DEF OnePending

\* A request, and a reset, with another number.
LEMMA Renumber ==
  ASSUME NEW i, NEW j, NEW write, NEW addr, NEW size, NEW beats, NEW value,
         NEW r, r = Request(i, write, addr, size, beats, value)
  PROVE  [r EXCEPT !.id = j] = Request(j, write, addr, size, beats, value)
BY DEF Request

LEMMA Renumbered ==
  ASSUME NEW r, ResetRequest(r), NEW j
  PROVE  /\ ResetRequest([r EXCEPT !.id = j])
         /\ [r EXCEPT !.id = j].id = j /\ [r EXCEPT !.id = j].value = r.value
<1>1. r.write = TRUE
  BY DEF ResetRequest, Request
<1>2. r = Request(r.id, r.write, RESET, 4, 1, r.value)
  BY <1>1, Zenon DEF ResetRequest
<1>3. [r EXCEPT !.id = j] = Request(j, r.write, RESET, 4, 1, r.value)
  BY <1>2, Renumber
<1>4. [r EXCEPT !.id = j] = Request(j, TRUE, RESET, 4, 1, r.value)
  BY <1>1, <1>3, Zenon
<1> QED BY <1>4 DEF ResetRequest, Request

\* An idle handler takes the request of a reset: its register is on the target (send_request).
LEMMA ResetSendable ==
  ASSUME NEW r, ResetRequest(r)
  PROVE  r # None /\ Route(r) = "rtl" /\ (handler.outgoing_request = None => Sendable(handler, r))
<1>1. r.addr = 0 /\ r.size = 4 /\ r.beats = 1
  BY DEF ResetRequest, Request, RESET
<1>2. EndAddr(r) = 3
  BY <1>1 DEF EndAddr
<1>3. /\ RTL_END \in Nat /\ ADDR_END \in Nat /\ RTL_END >= 12 /\ RTL_END <= ADDR_END
      /\ MAX_BURST_BEATS \in Nat \ {0}
  BY RegistersAssumption, RegionAssumption
<1>4. Route(r) = "rtl"
  <2>1. ~(EndAddr(r) >= ADDR_END) /\ EndAddr(r) < RTL_END /\ ~(r.addr >= RTL_END)
    BY <1>1, <1>2, <1>3
  <2> QED BY <2>1 DEF Route
<1> QED BY <1>1, <1>3, <1>4 DEF Sendable, None, Request

\* A command is taken (handle_command): the request is executed, or it goes to the handler.
LEMMA CommandPending ==
  ASSUME ClientInv, CommandsInv, ThreadInv, LinkInv, OnePending, Command
  PROVE  OnePending'
<1>1. /\ commands # << >> /\ commands' = Tail(commands) /\ bg.at = "command" /\ ~Resetting
      /\ bg.resetting = "no" /\ UNCHANGED backend
  BY DEF Command, ThreadInv, Resetting, fixed
<1>2. PICK c, u, r : c = Head(commands) /\ u = Tail(commands) /\ r = c.req
  OBVIOUS
<1>3. /\ Elems(u) \subseteq Elems(commands)
      /\ AtMostOne(u, "send") /\ AtMostOne(u, "reset")
      /\ Has(u, "send") => Has(commands, "send")
      /\ Has(u, "reset") => Has(commands, "reset")
      /\ c.type = "send" => c.req = pending /\ Has(commands, "send") /\ ~Has(u, "send")
      /\ c.type = "reset" => Has(commands, "reset") /\ ~Has(u, "reset")
      /\ Has(u, "shutdown") \/ c.type = "shutdown" => Has(commands, "shutdown")
      /\ c.type = "reset" => ResetRequest(r)
  BY <1>1, <1>2, FirstCommand DEF Sent
<1>4. commands' = u
  BY <1>1, <1>2
<1>5. \A x : SendRequest(handler, x).outgoing_request = x
  BY DEF LinkInv, Shaped, IsHandler, SendRequest
<1>6. CASE c.type = "send" /\ (LocalCommand(r) \/ RtlCommand(r) \/ SimCommand(r))
  <2>1. /\ r = pending /\ pending # None /\ handler.outgoing_request = None /\ direct = NoResponse
        /\ main.at # "enqueue" /\ ~Has(commands, "reset") /\ ~Has(u, "reset") /\ ~Has(u, "send")
    BY <1>2, <1>3, <1>6 DEF OnePending, Waiting
  <2>2. UNCHANGED main /\ ~Resetting' /\ bg'.resetting = "no" /\ bg'.at # "ended"
    <3>1. UNCHANGED main /\ Proceed
      BY <1>6 DEF LocalCommand, RtlCommand, SimCommand
    <3> QED BY <1>1, <3>1 DEF Proceed, Resetting, ThreadInv, Order
  <2>3. \A x \in Elems(u) : x.type # "send"
    BY <2>1, HasElems
  <2>4. \/ pending' = None /\ UNCHANGED <<handler, direct>>
        \/ UNCHANGED <<pending, direct>> /\ handler' = SendRequest(handler, r)
        \/ UNCHANGED <<pending, handler>> /\ direct' = Executed(r)
    BY <1>6, <2>1 DEF LocalCommand, RtlCommand, SimCommand
  <2>5. Executed(r).req = r
    BY DEF Executed
  <2> QED BY <1>3, <1>4, <1>5, <2>1, <2>2, <2>3, <2>4, <2>5 DEF OnePending, Waiting
<1>7. CASE c.type = "reset" /\ (FpgaReset(r) \/ SimReset)
  <2>1. /\ pending = None /\ main.at = "wait_reset" /\ ~Has(commands, "send")
        /\ ~Has(u, "send") /\ ~Has(u, "reset") /\ direct = NoResponse /\ handler.outgoing_request = None
    BY <1>1, <1>3, <1>7 DEF OnePending, Waiting
  <2>2. \A x \in Elems(u) : x.type # "send"
    BY <2>1, HasElems
  <2>3. CASE SimReset
    <3>1. /\ handler'.outgoing_request = None /\ direct' = NoResponse /\ UNCHANGED pending
          /\ Reported /\ Proceed
      BY <2>3 DEF SimReset, NewHandler, Reported
    <3>2. main'.at # "enqueue"
      BY <2>1, <3>1, ReportAt
    <3>3. ~Resetting' /\ bg'.resetting = "no" /\ bg'.at # "ended"
      BY <1>1, <3>1 DEF Proceed, Resetting, ThreadInv, Order
    <3>4. ~Has(u, "shutdown")
      BY <1>3, <2>1 DEF OnePending
    <3> QED BY <1>3, <1>4, <2>1, <2>2, <3>1, <3>2, <3>3, <3>4 DEF OnePending, Waiting
  <2>4. CASE FpgaReset(r)
    <3>1. PICK q : q = [r EXCEPT !.id = count.ids + 1]
      OBVIOUS
    <3>2. ResetRequest(q) /\ q.value = r.value
      BY <1>3, <1>7, <3>1, Renumbered
    <3>3. Sendable(handler, q) /\ q # None
      BY <2>1, <3>2, ResetSendable
    <3>4. /\ handler'.outgoing_request = q /\ UNCHANGED <<main, direct>>
          /\ pending' = IF q.value = RESET_CPU THEN q ELSE pending
          /\ bg' = [at |-> "timeout", resetting |-> IF q.value = RESET_CPU THEN "cpu" ELSE "system"]
      BY <1>5, <2>4, <3>1, <3>3 DEF FpgaReset
    <3>5. /\ Resetting' <=> q.value # RESET_CPU
          /\ bg'.resetting # "no" /\ bg'.at # "ended"
          /\ bg'.resetting = "cpu" <=> q.value = RESET_CPU
      BY <3>4 DEF Resetting
    <3>6. q.value # RESET_CPU => SysReset(q)
      BY <3>2 DEF ResetRequest, SysReset, Request
    <3>7. ~Has(u, "shutdown")
      BY <1>3, <2>1 DEF OnePending
    <3> QED BY <1>3, <1>4, <2>1, <2>2, <3>2, <3>3, <3>4, <3>5, <3>6, <3>7 DEF OnePending, Waiting
  <2> QED BY <1>7, <2>3, <2>4
<1>8. CASE /\ c.type = "shutdown" /\ bg' = [bg EXCEPT !.at = "ended"]
           /\ UNCHANGED <<main, pending, handler, direct>>
  <2>1. ~Resetting' /\ bg'.resetting = "no"
    BY <1>1, <1>8 DEF Resetting, ThreadInv
  <2>2. \A x \in Elems(u) : x.type = "send" => x.req = pending
    BY <1>3 DEF OnePending
  <2>3. main.at \in {"join", "gone"}
    BY <1>3, <1>8 DEF OnePending
  <2> QED BY <1>1, <1>3, <1>4, <1>8, <2>1, <2>2, <2>3 DEF OnePending, Waiting
<1> QED BY <1>2, <1>6, <1>7, <1>8 DEF Command

\* A response that is there is that of the request that is pending.
LEMMA ReceivedOwn ==
  ASSUME ThreadInv, LinkInv, InTime, OwnInv, OnePending, pending # None, Available
  PROVE  Received.req = pending /\ ~Waiting
<1>1. ~Resetting /\ ~Past
  BY DEF OnePending, Past
<1>2. /\ OneRequest(handler, tx, toDev, toHost, dev.request)
      /\ OwnLink(handler, tx, toDev, toHost, dev.request)
  BY <1>1, OneInTime DEF OwnInv, LeftOver
<1>3. CASE direct # NoResponse
  BY <1>3 DEF Received, OnePending
<1>4. CASE direct = NoResponse
  <2>1. handler.outgoing_response # NoResponse
    BY <1>4 DEF Available, HasResponse
  <2>2. handler.outgoing_request # None
    BY <1>2, <2>1 DEF OneRequest
  <2>3. handler.outgoing_response.req = handler.outgoing_request /\ handler.outgoing_request = pending
    BY <1>1, <1>2, <2>1, <2>2 DEF OwnLink, OnePending
  <2> QED BY <1>4, <2>2, <2>3 DEF Received, OnePending
<1> QED BY <1>3, <1>4

\* A response concludes the pending request.
LEMMA ResponsePending ==
  ASSUME ClientInv, ThreadInv, LinkInv, InTime, OwnInv, OnePending, Response
  PROVE  OnePending'
<1>1. /\ pending # None /\ Available /\ pending' = None /\ UNCHANGED commands
      /\ \/ UNCHANGED main /\ PassDone
            /\ ~(bg.resetting = "cpu" /\ pending.addr = RESET /\ Received.req.write)
         \/ Reported /\ ResetOver(TRUE)
  BY DEF Response, Reported
<1>2. ~Waiting /\ ~Resetting /\ ~Has(commands, "reset")
  BY <1>1, ReceivedOwn DEF OnePending
<1>3. ~Resetting' /\ bg'.resetting = "no" /\ bg'.at # "ended"
  <2>1. CASE PassDone /\ ~(bg.resetting = "cpu" /\ pending.addr = RESET /\ Received.req.write)
    <3>1. bg.resetting = "no"
      <4>1. bg.resetting = "cpu" => pending.addr = RESET /\ Received.req.write
        BY <1>1, ReceivedOwn DEF OnePending, ResetRequest, Request
      <4> QED BY <1>2, <2>1, <4>1 DEF ThreadInv, Resetting
    <3> QED BY <2>1, <3>1 DEF PassDone, ThreadInv, Resetting
  <2>2. CASE ResetOver(TRUE)
    BY <2>2 DEF ResetOver, Resetting
  <2> QED BY <1>1, <2>1, <2>2
<1>4. main'.at # "enqueue"
  <2>1. CASE UNCHANGED main
    BY <1>2, <2>1 DEF Waiting
  <2>2. CASE Reported
    BY <1>2, <2>2, ReportAt DEF Waiting
  <2> QED BY <1>1, <2>1, <2>2
<1>7. main.at \in {"join", "gone"} => main'.at \in {"join", "gone"}
  BY <1>1, ReportAt
<1>5. direct' = NoResponse /\ handler'.outgoing_request = None
  <2>1. CASE direct # NoResponse
    BY <2>1 DEF Response, OnePending
  <2>2. CASE direct = NoResponse
    <3>1. handler' = ReceiveResponse(handler) /\ UNCHANGED direct
      BY <2>2 DEF Response
    <3> QED BY <2>2, <3>1 DEF ReceiveResponse, LinkInv, Shaped, IsHandler
  <2> QED BY <2>1, <2>2
<1>6. \A c \in Elems(commands) : c.type # "send"
  BY <1>2, HasElems DEF Waiting
<1> QED BY <1>1, <1>2, <1>3, <1>4, <1>5, <1>6, <1>7 DEF OnePending, Waiting

\* The end of a reset of the system.
LEMMA SettlePending ==
  ASSUME ClientInv, ThreadInv, OnePending, Settle
  PROVE  OnePending'
<1>1. /\ pending' = None /\ UNCHANGED <<commands, direct>> /\ handler'.outgoing_request = None
      /\ Reported /\ ResetOver(TRUE) /\ bg.at = "settle"
  BY DEF Settle, NewHandler, Reported
<1>2. /\ Resetting /\ pending = None /\ main.at = "wait_reset" /\ ~Has(commands, "reset")
      /\ ~Has(commands, "shutdown")
  BY <1>1 DEF ThreadInv, OnePending, Resetting
<1>3. direct = NoResponse /\ ~Has(commands, "send")
  BY <1>2 DEF OnePending, Waiting
<1>4. main'.at # "enqueue"
  BY <1>1, <1>2, ReportAt
<1>5. ~Resetting' /\ bg'.resetting = "no" /\ bg'.at # "ended"
  BY <1>1 DEF ResetOver, Resetting
<1>6. \A c \in Elems(commands) : c.type # "send"
  BY <1>3, HasElems
<1> QED BY <1>1, <1>2, <1>3, <1>4, <1>5, <1>6 DEF OnePending, Waiting

\* A runtime starts with nothing pending but the reset it begins with.
LEMMA InitPending == Init => OnePending
<1> SUFFICES ASSUME Init PROVE OnePending
  OBVIOUS
<1>1. commands = << >> /\ direct = NoResponse
  BY DEF Init
<1>2. /\ \A type : ~Has(commands, type) /\ AtMostOne(commands, type)
      /\ \A c \in Elems(commands) : c.type # "send"
  BY <1>1, EmptySeq, EmptyElems
<1>3. NewHandler.outgoing_request = None /\ \A r : SendRequest(NewHandler, r).outgoing_request = r
  BY DEF NewHandler, SendRequest
<1>4. Idle.at = "idle" /\ \A x, y : [Idle EXCEPT !.at = "wait_reset", !.cmd = x, !.req = y].at = "wait_reset"
  BY DEF Idle
<1>5. /\ main.at # "enqueue"
      /\ handler.outgoing_request # None => Resetting \/ handler.outgoing_request = pending
      /\ Resetting => pending = None /\ SysReset(handler.outgoing_request)
      /\ bg.resetting # "no" => main.at = "wait_reset"
      /\ bg.resetting = "cpu" => ResetRequest(pending) /\ pending # None
      /\ bg.at # "ended"
  <2>1. CASE backend = "sim"
    <3>1. main = Idle /\ handler = NewHandler /\ bg.resetting = "no" /\ bg.at = "command"
      BY <2>1 DEF Init, Create
    <3> QED BY <1>3, <1>4, <3>1 DEF Resetting
  <2>2. CASE backend # "sim"
    <3>1. PICK startup \in Startups, left \in Leftovers : Connect(startup, left)
      BY <2>2 DEF Init
    <3>2. PICK r : r = RequestAt(Script[startup][1], NoRegion, 0, 1, 0)
      OBVIOUS
    <3>3. /\ main = IF startup = "none" THEN Idle
                    ELSE [Idle EXCEPT !.at = "wait_reset", !.cmd = startup, !.req = r]
          /\ pending = IF startup = "connect_cpu" THEN r ELSE None
          /\ handler = IF startup = "none" THEN NewHandler ELSE SendRequest(NewHandler, r)
          /\ startup = "none" => bg.resetting = "no" /\ bg.at # "ended"
          /\ startup = "connect_cpu" => bg.resetting = "cpu" /\ bg.at # "ended"
          /\ startup = "connect_system" => bg.resetting = "system" /\ bg.at # "ended"
      BY <3>1, <3>2 DEF Connect
    <3>4. startup \in {"none", "connect_cpu", "connect_system"}
      BY DEF Startups, Connecting
    <3>5. startup = "connect_cpu" => r = Request(1, TRUE, RESET, 4, 1, RESET_CPU)
      BY <3>2 DEF Script, ConnectCpu, RequestAt
    <3>6. startup = "connect_system" => r = Request(1, TRUE, RESET, 4, 1, RESET_SYSTEM)
      BY <3>2 DEF Script, ConnectSystem, RequestAt
    <3>7. startup = "connect_cpu" => ResetRequest(r) /\ r # None
      BY <3>5 DEF ResetRequest, Request, None
    <3>8. startup = "connect_system" => SysReset(r)
      BY <3>6 DEF SysReset, Request
    <3> QED BY <1>3, <1>4, <3>3, <3>4, <3>7, <3>8 DEF Resetting
  <2> QED BY <2>1, <2>2
<1> QED BY <1>1, <1>2, <1>5 DEF OnePending, Waiting

\* Every step keeps it, as long as nothing fails.
LEMMA PendingStep == IInv /\ OwnInv /\ PendingInv /\ [Next]_vars => PendingInv'
<1> SUFFICES ASSUME IInv, OwnInv, PendingInv, [Next]_vars, InTime' PROVE OnePending'
  BY DEF PendingInv
<1>1. ClientInv /\ CommandsInv /\ ThreadInv /\ LinkInv
  BY DEF IInv
<1>2. InTime /\ ~(FpgaTimeOut \/ SimTimeOut \/ Failure)
  BY <1>1, Faults
<1>3. OnePending
  BY <1>2 DEF PendingInv
<1>4. IsHandler(handler)
  BY <1>1 DEF LinkInv, Shaped
<1>5. CASE Client
  BY <1>1, <1>3, <1>5, ClientPending
<1>6. CASE Command
  BY <1>1, <1>3, <1>6, CommandPending
<1>7. CASE NoCommand \/ NoTimeOut \/ SimNoResponse
  <2>1. UNCHANGED <<main, commands, pending, direct, handler>> /\ Proceed
    BY <1>7 DEF NoCommand, NoTimeOut, SimNoResponse, client
  <2>2. bg'.resetting = bg.resetting /\ bg'.at # "ended"
    BY <1>1, <1>7, <2>1 DEF NoCommand, NoTimeOut, SimNoResponse, Proceed, ThreadInv, Order
  <2> QED BY <1>3, <2>1, <2>2, FramePending
<1>8. CASE RxPacket
  <2>1. /\ UNCHANGED <<main, commands, pending, direct, bg>> /\ toHost # << >>
        /\ CanTake(handler, Head(toHost)) /\ handler' = FinalizeRx(handler, Head(toHost))
    BY <1>8 DEF RxPacket, client
  <2>2. handler'.outgoing_request = handler.outgoing_request
    <3>1. FromTarget(toHost)
      BY <1>1 DEF LinkInv, Shaped
    <3> QED BY <1>4, <2>1, <3>1, TakeOp
  <2> QED BY <1>3, <2>1, <2>2, FramePending
<1>9. CASE TxPackets
  <2>1. /\ UNCHANGED <<main, commands, pending, direct>> /\ Proceed
        /\ handler' = AfterTx(AfterTx(handler))
    BY <1>9 DEF TxPackets, client
  <2>2. PICK h, g : h = AfterTx(handler) /\ g = AfterTx(h)
    OBVIOUS
  <2>3. IsHandler(h) /\ h.outgoing_request = handler.outgoing_request
    BY <1>4, <2>2, EmptySeq, StartOp
  <2>4. g.outgoing_request = h.outgoing_request
    BY <2>2, <2>3, EmptySeq, StartOp
  <2>5. bg'.resetting = bg.resetting /\ bg'.at # "ended"
    BY <1>1, <1>9, <2>1 DEF TxPackets, Proceed, ThreadInv, Order
  <2> QED BY <1>3, <2>1, <2>2, <2>3, <2>4, <2>5, FramePending
<1>10. CASE SimLink
  <2>1. UNCHANGED <<main, commands, pending, direct>> /\ Proceed
    BY <1>10 DEF SimLink, client
  <2>2. handler'.outgoing_request = handler.outgoing_request
    BY <1>1, <1>10, SimLinkOwn
  <2>3. bg'.resetting = bg.resetting /\ bg'.at # "ended"
    BY <1>1, <1>10, <2>1 DEF SimLink, Proceed, ThreadInv, Order
  <2> QED BY <1>3, <2>1, <2>2, <2>3, FramePending
<1>11. CASE Response
  BY <1>1, <1>2, <1>3, <1>11, ResponsePending
<1>12. CASE FpgaCpu
  <2>1. UNCHANGED <<main, commands, pending, direct>> /\ PassDone
    BY <1>12 DEF FpgaCpu, client
  <2>2. handler'.outgoing_request = handler.outgoing_request
    BY <1>1, <1>12, FpgaCpuOwn
  <2>3. bg'.resetting = bg.resetting /\ bg'.at # "ended"
    BY <1>1, <1>12, <2>1 DEF FpgaCpu, PassDone, ThreadInv
  <2> QED BY <1>3, <2>1, <2>2, <2>3, FramePending
<1>13. CASE Settle
  BY <1>1, <1>3, <1>13, SettlePending
<1>14. CASE CpuIssue \/ DevTake \/ DevServe \/ UNCHANGED vars
  <2>1. UNCHANGED <<main, commands, pending, direct, bg, handler>>
    BY <1>14 DEF CpuIssue, DevTake, DevServe, vars, client
  <2> QED BY <1>3, <2>1, FramePending
<1> QED BY <1>2, <1>5, <1>6, <1>7, <1>8, <1>9, <1>10, <1>11, <1>12, <1>13, <1>14 DEF Next, Thread

\* An event that carries a response carries that of its request.
Own(e) == e.type \in {"read", "write"} => e.from = e.id

EventsInv == IsSeq(events) /\ (InTime => \A e \in Elems(events) : Own(e))

\* What happens to the events in a step.
LEMMA EventsMove ==
  ASSUME IInv, OwnInv, PendingInv, [Next]_vars
  PROVE  \/ UNCHANGED events
         \/ events # << >> /\ events' = Tail(events)
         \/ \E e : events' = Append(events, e) /\ (InTime => Own(e))
<1>1. ClientInv /\ CommandsInv /\ ThreadInv /\ LinkInv
  BY DEF IInv
<1>2. ASSUME NEW e, Emit(e), InTime => Own(e)
      PROVE  \E x : events' = Append(events, x) /\ (InTime => Own(x))
  BY <1>2 DEF Emit
<1>3. \A type, r, from : Event(type, r, from).type = type
  BY DEF Event
<1>4. \A type, r, from : type \in {"timeout", "error", "access", "fatal"} => Own(Event(type, r, from))
  BY <1>3 DEF Own
<1>5. \A r, resp : resp.req = r => Own(Answer(r, resp))
  BY DEF Answer, Event, Own
<1>6. CASE Client
  BY <1>6 DEF Client, Start, Arm, Enqueue, AskReset, Poll, IdlePoll, Disconnect, Join, Drain, GiveUpReset
<1>7. CASE Command
  <2>1. commands # << >>
    BY <1>7 DEF Command
  <2>2. PICK c, r : c = Head(commands) /\ r = c.req
    OBVIOUS
  <2>3. CASE c.type = "send" /\ LocalCommand(r)
    <3>1. Emit([Answer(pending, Executed(r)) EXCEPT !.addr = r.addr]) \/ UNCHANGED events
      BY <2>3 DEF LocalCommand
    <3>2. InTime => r = pending
      <4>1. InTime => OnePending
        BY DEF PendingInv
      <4> QED BY <1>1, <2>1, <2>2, <2>3, <4>1, FirstCommand
    <3>3. Executed(r).req = r
      BY DEF Executed
    <3>4. InTime => Own([Answer(pending, Executed(r)) EXCEPT !.addr = r.addr])
      <4>1. Own([Answer(r, Executed(r)) EXCEPT !.addr = r.addr])
        BY <3>3 DEF Own, Answer, Event
      <4> QED BY <3>2, <4>1
    <3> QED BY <1>2, <3>1, <3>4
  <2>4. CASE RtlCommand(r)
    BY <1>2, <1>4, <2>4 DEF RtlCommand
  <2>5. CASE SimCommand(r)
    BY <1>2, <1>4, <2>5 DEF SimCommand
  <2>6. CASE UNCHANGED events
    BY <2>6
  <2> QED BY <1>7, <2>2, <2>3, <2>4, <2>5, <2>6 DEF Command, FpgaReset, SimReset
<1>8. CASE FpgaTimeOut \/ SimTimeOut
  <2>1. UNCHANGED events \/ Emit(Event("timeout", pending, NoResponse))
    BY <1>8 DEF FpgaTimeOut, SimTimeOut
  <2> QED BY <1>2, <1>4, <2>1
<1>9. CASE Failure
  <2>1. ASSUME NEW type \in {"error", "fatal"}, PortError(type)
        PROVE  UNCHANGED events \/ Emit(Event(type, None, NoResponse))
    BY <2>1 DEF PortError
  <2>2. SimulationError => Emit(Event("fatal", None, NoResponse))
    BY DEF SimulationError
  <2> QED BY <1>2, <1>4, <1>9, <2>1, <2>2 DEF Failure
<1>10. CASE Response
  <2>1. UNCHANGED events \/ Emit(Answer(pending, Received))
    BY <1>10 DEF Response
  <2>2. InTime => Received.req = pending
    BY <1>1, <1>10, ReceivedOwn DEF Response, PendingInv
  <2> QED BY <1>2, <1>5, <2>1, <2>2
<1>11. CASE FpgaCpu
  BY <1>2, <1>4, <1>11 DEF FpgaCpu
<1>12. CASE \/ NoCommand \/ NoTimeOut \/ SimNoResponse \/ RxPacket \/ TxPackets \/ SimLink \/ Settle
            \/ CpuIssue \/ DevTake \/ DevServe \/ UNCHANGED vars
  BY <1>12 DEF NoCommand, NoTimeOut, SimNoResponse, RxPacket, TxPackets, SimLink, Settle, CpuIssue,
               DevTake, DevServe, vars
<1> QED BY <1>6, <1>7, <1>8, <1>9, <1>10, <1>11, <1>12 DEF Next, Thread

LEMMA EventsStep == IInv /\ OwnInv /\ PendingInv /\ EventsInv /\ [Next]_vars => EventsInv'
<1> SUFFICES ASSUME IInv, OwnInv, PendingInv, EventsInv, [Next]_vars PROVE EventsInv'
  OBVIOUS
<1>1. InTime' => InTime
  BY Faults DEF IInv
<1>2. PICK u : u = events'
  OBVIOUS
<1>3. CASE UNCHANGED events
  BY <1>1, <1>3 DEF EventsInv
<1>4. CASE events # << >> /\ u = Tail(events)
  <2>1. IsSeq(u) /\ Elems(u) \subseteq Elems(events)
    BY <1>4, TailElems DEF EventsInv
  <2> QED BY <1>1, <1>2, <2>1 DEF EventsInv
<1>5. ASSUME NEW e, u = Append(events, e), InTime => Own(e)
      PROVE  EventsInv'
  <2>1. IsSeq(u) /\ Elems(u) = Elems(events) \cup {e}
    BY <1>5, AppendElems DEF EventsInv
  <2> QED BY <1>1, <1>2, <1>5, <2>1 DEF EventsInv
<1> QED BY <1>2, <1>3, <1>4, <1>5, EventsMove

\* As long as nothing fails, the client is given the response to its own request: however
\* the threads, the accesses of the CPU and a reset interleave (host_bus_handler.rs,
\* finalize_rx_packet and receive_response; fpga.rs, sim.rs).
THEOREM AnswersOwnHolds == Spec => []InTimeAnswersOwn
<1>1. Init => OwnInv /\ PendingInv /\ EventsInv
  <2>1. Init => events = << >>
    BY DEF Init
  <2> QED BY <2>1, InitOwn, InitPending, EmptySeq, EmptyElems DEF PendingInv, EventsInv
<1>2. EventsInv => InTimeAnswersOwn
  <2>1. SUFFICES ASSUME IsSeq(events), \A e \in Elems(events) : Own(e) PROVE AnswersOwn
    BY DEF EventsInv, InTimeAnswersOwn
  <2>2. DOMAIN events = 1 .. Len(events)
    BY <2>1 DEF IsSeq
  <2> QED BY <2>1, <2>2 DEF AnswersOwn, Own, Elems
<1> QED BY <1>1, <1>2, Inductive, OwnStep, PendingStep, EventsStep, PTL DEF Spec

=============================================================================
