--------------------------- MODULE HostSystemProofs ---------------------------
(***************************************************************************)
(* Device, shared buffer and audio backend agree on the configuration once *)
(* the viewer has none left to apply, whatever the program, the runtime's  *)
(* thread, the viewer and the user do in between.                          *)
(***************************************************************************)
EXTENDS HostSystem, WellFoundedInduction, TLAPS

(***************************************************************************)
(* Sequences                                                               *)
(***************************************************************************)
IsSeq(s) == Len(s) \in Nat /\ s = [i \in 1 .. Len(s) |-> s[i]]

LEMMA SeqIs ==
  ASSUME NEW S, NEW s \in Seq(S)
  PROVE  IsSeq(s)
BY DEF IsSeq

LEMMA ElemsSeq ==
  ASSUME NEW s, IsSeq(s)
  PROVE  s \in Seq({s[i] : i \in 1 .. Len(s)})
BY DEF IsSeq

LEMMA ConcatSeq ==
  ASSUME NEW s, IsSeq(s), NEW t, IsSeq(t)
  PROVE  /\ IsSeq(s \o t) /\ Len(s \o t) = Len(s) + Len(t)
         /\ \A i \in 1 .. Len(s) : (s \o t)[i] = s[i]
         /\ \A i \in 1 .. Len(t) : (s \o t)[Len(s) + i] = t[i]
<1>1. PICK S : s \in Seq(S) /\ t \in Seq(S)
  <2>1. s \in Seq({s[i] : i \in 1 .. Len(s)} \cup {t[i] : i \in 1 .. Len(t)})
    BY DEF IsSeq
  <2>2. t \in Seq({s[i] : i \in 1 .. Len(s)} \cup {t[i] : i \in 1 .. Len(t)})
    BY DEF IsSeq
  <2> QED BY <2>1, <2>2
<1>2. s \o t \in Seq(S)
  BY <1>1
<1>3. IsSeq(s \o t)
  BY <1>2, SeqIs
<1> QED BY <1>1, <1>3

\* A set of numbers has a least one.
LEMMA Least ==
  ASSUME NEW T, T \subseteq Nat, T # {}
  PROVE  \E m \in T : \A y \in T : m <= y
<1>1. \E x \in T : \A y \in T : ~(<<y, x>> \in OpToRel(<, Nat))
  BY NatLessThanWellFounded, WFMin
<1>2. \A x, y \in T : ~(<<y, x>> \in OpToRel(<, Nat)) => x <= y
  BY DEF OpToRel
<1> QED BY <1>1, <1>2

\* The recursion by which FlattenSeq is defined has a solution.
Flattens(f, s, n) == f = [i \in 1 .. n |-> IF i = 1 THEN s[i] ELSE f[i - 1] \o s[i]]

LEMMA FlattenExists ==
  ASSUME NEW s, NEW n \in Nat
  PROVE  \E f : Flattens(f, s, n)
<1> DEFINE T == {k \in Nat : ~\E f : Flattens(f, s, k)}
<1> SUFFICES ASSUME T # {} PROVE FALSE
  OBVIOUS
<1>1. PICK m \in T : \A y \in T : m <= y
  BY Least
<1>2. m # 0
  <2>1. PICK f : f = [i \in 1 .. 0 |-> s[i]]
    OBVIOUS
  <2>2. Flattens(f, s, 0)
    BY <2>1 DEF Flattens
  <2> QED BY <2>2
<1>3. m - 1 \in Nat /\ m - 1 \notin T
  BY <1>1, <1>2
<1>4. PICK g : Flattens(g, s, m - 1)
  BY <1>3
<1>5. PICK f : f = [i \in 1 .. m |-> IF i = m THEN IF i = 1 THEN s[i] ELSE g[i - 1] \o s[i] ELSE g[i]]
  OBVIOUS
<1>6. ASSUME NEW i \in 1 .. m
      PROVE  f[i] = IF i = 1 THEN s[i] ELSE f[i - 1] \o s[i]
  <2>1. CASE i = m
    BY <1>1, <1>5, <2>1
  <2>2. CASE i # m
    <3>1. i \in 1 .. m - 1 /\ i # 1 => i - 1 \in 1 .. m - 1 /\ i - 1 \in 1 .. m
      BY <1>1, <2>2
    <3>2. f[i] = g[i] /\ (i # 1 => f[i - 1] = g[i - 1])
      BY <1>1, <1>5, <2>2, <3>1
    <3>3. g[i] = IF i = 1 THEN s[i] ELSE g[i - 1] \o s[i]
      <4>1. i \in 1 .. m - 1
        BY <1>1, <2>2
      <4> QED BY <1>4, <4>1 DEF Flattens
    <3> QED BY <3>2, <3>3
  <2> QED BY <2>1, <2>2
<1>7. Flattens(f, s, m)
  BY <1>5, <1>6 DEF Flattens
<1> QED BY <1>1, <1>7

LEMMA FlattenIs ==
  ASSUME NEW s, Len(s) \in Nat, Len(s) # 0
  PROVE  \E f : Flattens(f, s, Len(s)) /\ FlattenSeq(s) = f[Len(s)]
<1>1. PICK f : f = CHOOSE g : Flattens(g, s, Len(s))
  OBVIOUS
<1>2. Flattens(f, s, Len(s))
  BY <1>1, FlattenExists
<1>3. FlattenSeq(s) = f[Len(s)]
  BY <1>1 DEF FlattenSeq, Flattens
<1> QED BY <1>2, <1>3

(***************************************************************************)
(* What the programs write                                                 *)
(***************************************************************************)
\* The configurations that the programs set: those of AudioConfig::new(SampleRate::Rate48000, 2, n).
Settings == {AudioToRegister(Stereo(n)) : n \in Int}

\* A step sets a configuration, or does not write to that register; if it waits for something,
\* it says where to go if that is not there.
Proper(step) ==
  /\ step.write /\ step.addr = AUDIO_BASE + 4 => step.test = "none" /\ step.value \in Settings
  /\ step.test \in {"none", "kept"} \/ step.else \in {"same", "round", "success", "failure", "panic"}

AllProper(steps) == IsSeq(steps) /\ \A i \in 1 .. Len(steps) : Proper(steps[i])

LEMMA ConcatProper ==
  ASSUME NEW s, AllProper(s), NEW t, AllProper(t)
  PROVE  AllProper(s \o t)
<1>1. IsSeq(s) /\ IsSeq(t)
  BY DEF AllProper
<1>2. /\ IsSeq(s \o t) /\ Len(s \o t) = Len(s) + Len(t) /\ Len(s) \in Nat /\ Len(t) \in Nat
      /\ \A i \in 1 .. Len(s) : (s \o t)[i] = s[i]
      /\ \A i \in 1 .. Len(t) : (s \o t)[Len(s) + i] = t[i]
  BY <1>1, ConcatSeq DEF IsSeq
<1>3. ASSUME NEW i \in 1 .. Len(s) + Len(t) PROVE Proper((s \o t)[i])
  <2>1. CASE i <= Len(s)
    <3>1. i \in 1 .. Len(s)
      BY <1>2, <2>1
    <3> QED BY <1>2, <3>1 DEF AllProper
  <2>2. CASE ~(i <= Len(s))
    <3>1. i - Len(s) \in 1 .. Len(t) /\ i = Len(s) + (i - Len(s))
      BY <1>2, <2>2
    <3> QED BY <1>2, <3>1 DEF AllProper
  <2> QED BY <2>1, <2>2
<1> QED BY <1>2, <1>3 DEF AllProper

LEMMA FlattenProper ==
  ASSUME NEW s, Len(s) \in Nat, s = [i \in 1 .. Len(s) |-> s[i]], \A i \in 1 .. Len(s) : AllProper(s[i])
  PROVE  AllProper(FlattenSeq(s))
<1>1. CASE Len(s) = 0
  <2>1. FlattenSeq(s) = s
    BY <1>1 DEF FlattenSeq
  <2> QED BY <1>1, <2>1 DEF AllProper, IsSeq
<1>2. CASE Len(s) # 0
  <2>1. PICK f : Flattens(f, s, Len(s)) /\ FlattenSeq(s) = f[Len(s)]
    BY <1>2, FlattenIs
  <2>2. \A i \in 1 .. Len(s) : f[i] = IF i = 1 THEN s[i] ELSE f[i - 1] \o s[i]
    BY <2>1 DEF Flattens
  <2> DEFINE T == {k \in Nat : k \in 1 .. Len(s) /\ ~AllProper(f[k])}
  <2>3. ASSUME T # {} PROVE FALSE
    <3>1. PICK m \in T : \A y \in T : m <= y
      BY <2>3, Least
    <3>2. m # 1
      <4>1. CASE m = 1
        <5>1. f[1] = s[1] /\ 1 \in 1 .. Len(s)
          BY <2>2, <3>1, <4>1
        <5> QED BY <3>1, <4>1, <5>1
      <4> QED BY <4>1
    <3>3. m - 1 \in Nat /\ m - 1 \in 1 .. Len(s) /\ ~(m <= m - 1)
      BY <3>1, <3>2
    <3>4. AllProper(f[m - 1]) /\ AllProper(s[m])
      BY <3>1, <3>3
    <3>5. f[m] = f[m - 1] \o s[m]
      BY <2>2, <3>1, <3>2
    <3>6. AllProper(f[m])
      BY <3>4, <3>5, ConcatProper
    <3> QED BY <3>1, <3>6
  <2>4. Len(s) \in 1 .. Len(s)
    BY <1>2
  <2> QED BY <2>1, <2>3, <2>4
<1> QED BY <1>1, <1>2

\* Where the buffers and the registers lie.
LEMMA Layout ==
  /\ {FIRST_BUFFER, SECOND_BUFFER, HALF, VIDEO_BASE, AUDIO_BASE, FIFO_BASE, DMA_BASE, SIM_CONTROL_BASE}
       \subseteq Int
  /\ FIRST_BUFFER + HALF <= SECOND_BUFFER /\ SECOND_BUFFER + HALF <= VIDEO_BASE /\ HALF >= 0
  /\ VIDEO_BASE + 16 <= AUDIO_BASE /\ AUDIO_BASE + 16 <= FIFO_BASE /\ FIFO_BASE + 16 <= DMA_BASE
  /\ AUDIO_BASE + 16 <= SIM_CONTROL_BASE /\ WORD \in Int
<1>1. BYTE \in Int /\ BYTE >= 4
  BY MemoryAssumption
<1>2. PICK p : p = BYTE * BYTE
  OBVIOUS
<1>3. p \in Int /\ p >= 16
  BY <1>1, <1>2
<1>4. WORD \in Int /\ WORD >= 256
  <2>1. p * p \in Int /\ p * p >= 256
    BY <1>3
  <2> QED BY <1>2, <2>1 DEF WORD
<1>5. PICK w : w = WORD \div 16
  OBVIOUS
<1>6. w \in Int /\ w >= 16
  BY <1>4, <1>5
<1>7. /\ DRAM_BASE = 8 * w /\ DRAM_END = 9 * w - 1 /\ VIDEO_BASE = 9 * w /\ AUDIO_BASE = 10 * w
      /\ FIFO_BASE = 11 * w /\ DMA_BASE = 12 * w /\ SIM_CONTROL_BASE = 15 * w
  BY <1>5 DEF FIFO_BASE, DMA_BASE, SIM_CONTROL_BASE, DRAM_BASE, DRAM_END, VIDEO_BASE, AUDIO_BASE, Base
<1>8. HALF = w \div 2 /\ FIRST_BUFFER = 8 * w /\ SECOND_BUFFER = 8 * w + w \div 2
  BY <1>6, <1>7 DEF HALF, FIRST_BUFFER, SECOND_BUFFER
<1> QED BY <1>4, <1>6, <1>7, <1>8

LEMMA StepProper ==
  /\ \A addr, size, value : addr # AUDIO_BASE + 4 => Proper(Write(addr, size, value))
  /\ \A addr, size, value : value \in Settings => Proper(Write(addr, size, value))
  /\ \A addr, bit : Proper(WaitFor(addr, bit)) /\ Proper(WaitForNot(addr, bit))
  /\ \A addr, bit : \A else \in {"round", "success", "panic"} : Proper(Unless(addr, bit, else))
  /\ \A addr, size, value : Proper(Expect(addr, size, value))
  /\ \A addr : Proper(Take(addr)) /\ (addr # AUDIO_BASE + 4 => Proper(Give(addr)))
BY DEF Proper, Write, WaitFor, WaitForNot, Unless, Expect, Take, Give, Step

LEMMA OneProper ==
  ASSUME NEW x, Proper(x)
  PROVE  AllProper(<<x>>)
<1>1. PICK s : s = <<x>>
  OBVIOUS
<1>2. Len(s) = 1 /\ s[1] = x /\ s = [i \in 1 .. 1 |-> s[i]]
  BY <1>1
<1>3. \A i \in 1 .. Len(s) : s[i] = x
  BY <1>2
<1>4. AllProper(s)
  BY <1>2, <1>3 DEF AllProper, IsSeq
<1> QED BY <1>1, <1>4

LEMMA PairProper ==
  ASSUME NEW x, Proper(x), NEW y, Proper(y)
  PROVE  AllProper(<<x, y>>)
<1>1. PICK s : s = <<x, y>>
  OBVIOUS
<1>2. Len(s) = 2 /\ s[1] = x /\ s[2] = y /\ s = [i \in 1 .. 2 |-> s[i]]
  BY <1>1
<1>3. \A i \in 1 .. Len(s) : s[i] \in {x, y}
  BY <1>2
<1>4. AllProper(s)
  BY <1>2, <1>3 DEF AllProper, IsSeq
<1> QED BY <1>1, <1>4

LEMMA NoneProper == AllProper(<< >>)
BY DEF AllProper, IsSeq

\* A loop whose turns are proper.
LEMMA StepsProper ==
  ASSUME NEW n \in Int, NEW s, s = [i \in 1 .. n |-> s[i]], \A i \in 1 .. n : AllProper(s[i])
  PROVE  AllProper(FlattenSeq(s))
<1>1. PICK k \in Nat : 1 .. n = 1 .. k
  <2>1. CASE n >= 0
    BY <2>1
  <2>2. CASE n < 0
    <3>1. 1 .. n = 1 .. 0
      BY <2>2
    <3> QED BY <3>1
  <2> QED BY <2>1, <2>2
<1>2. s = [i \in 1 .. k |-> s[i]]
  BY <1>1
<1>3. Len(s) = k
  <2>1. PICK t : t = s
    OBVIOUS
  <2>2. Len([i \in 1 .. k |-> t[i]]) = k
    OBVIOUS
  <2> QED BY <1>2, <2>1, <2>2
<1> QED BY <1>1, <1>2, <1>3, FlattenProper

LEMMA AudioProper ==
  ASSUME NEW count \in Int, NEW index, count <= BUFFER_SAMPLES
  PROVE  /\ AllProper(ConfigureAudio(count)) /\ AllProper(WriteSamples(index, count))
         /\ AllProper(WaitForDmaReady) /\ AllProper(WaitForSampleBuffer) /\ AllProper(TriggerDma)
         /\ AllProper(PlayAgain)
<1>1. AllProper(ConfigureAudio(count))
  <2>1. AUDIO_BASE # AUDIO_BASE + 4 /\ AudioToRegister(Stereo(count)) \in Settings
    BY Layout DEF Settings
  <2> QED BY <2>1, StepProper, PairProper DEF ConfigureAudio
<1>2. AllProper(WriteSamples(index, count))
  <2>1. PICK s : s = [i \in 1 .. count |->
                       WriteStereoSample(SECOND_BUFFER + 4 * (i - 1), Wave(index, count)[2 * (i - 1) + 1],
                                         Wave(index, count)[2 * (i - 1) + 2])]
    OBVIOUS
  <2>2. ASSUME NEW i \in 1 .. count PROVE AllProper(s[i])
    <3>1. BUFFER_SAMPLES \in Int /\ 4 * BUFFER_SAMPLES <= HALF
      BY BuffersAssumption
    <3>2. SECOND_BUFFER + 4 * (i - 1) # AUDIO_BASE + 4
      BY <3>1, Layout
    <3>3. PICK a, b : s[i] = WriteStereoSample(SECOND_BUFFER + 4 * (i - 1), a, b)
      BY <2>1
    <3> QED BY <3>2, <3>3, StepProper, OneProper DEF WriteStereoSample
  <2>3. WriteSamples(index, count) = FlattenSeq(s)
    BY <2>1 DEF WriteSamples, Steps
  <2>4. s = [i \in 1 .. count |-> s[i]]
    BY <2>1
  <2> QED BY <2>2, <2>3, <2>4, StepsProper
<1>3. AllProper(WaitForDmaReady) /\ AllProper(WaitForSampleBuffer)
  BY StepProper, OneProper DEF WaitForDmaReady, WaitForSampleBuffer
<1>4. AllProper(TriggerDma)
  <2>1. AUDIO_BASE + 12 # AUDIO_BASE + 4
    BY Layout
  <2> QED BY <2>1, StepProper, OneProper DEF TriggerDma
<1>5. AllProper(PlayAgain)
  BY <1>4, StepProper, PairProper, ConcatProper DEF PlayAgain
<1> QED BY <1>1, <1>2, <1>3, <1>4, <1>5

LEMMA PixelProper ==
  ASSUME NEW addr \in Int, addr + 2 < AUDIO_BASE, NEW format \in {0, 1, 3}, NEW bytes
  PROVE  AllProper(WritePixel(addr, format, bytes))
<1>1. addr # AUDIO_BASE + 4 /\ addr + 2 # AUDIO_BASE + 4
  BY Layout
<1>2. CASE format = 0
  BY <1>1, <1>2, StepProper, OneProper DEF WritePixel
<1>3. CASE format = 1
  BY <1>1, <1>3, StepProper, PairProper DEF WritePixel
<1>4. CASE format = 3
  BY <1>1, <1>4, StepProper, OneProper DEF WritePixel
<1> QED BY <1>2, <1>3, <1>4

LEMMA VideoProper ==
  ASSUME NEW shape, shape \in {VIDEO_SHAPE.pattern, VIDEO_SHAPE.loop}, NEW frame
  PROVE  AllProper(ConfigureVideo(shape)) /\ AllProper(PresentFrame(shape, frame))
<1>1. /\ shape.width \in Nat \ {0} /\ shape.height \in Nat \ {0} /\ shape.format \in {0, 1, 3}
      /\ TotalBytes(shape) <= HALF
  BY BuffersAssumption
<1>2. VIDEO_BASE + 4 # AUDIO_BASE + 4 /\ VIDEO_BASE + 12 # AUDIO_BASE + 4 /\ VIDEO_BASE # AUDIO_BASE + 4
  BY Layout
<1>3. AllProper(ConfigureVideo(shape))
  BY <1>2, StepProper, PairProper DEF ConfigureVideo
<1>4. AllProper(WaitForFrameReady) /\ AllProper(WaitForPresentReady) /\ AllProper(TriggerPresent)
  BY <1>2, StepProper, OneProper DEF WaitForFrameReady, WaitForPresentReady, TriggerPresent
<1>5. PICK pixels \in Nat : pixels = shape.width * shape.height
  BY <1>1
<1>6. PICK depth \in {4, 3, 1} : depth = BytesPerPixel(shape.format)
  BY <1>1 DEF BytesPerPixel
<1>7. pixels * depth <= HALF
  BY <1>1, <1>5, <1>6 DEF TotalBytes
<1>8. AllProper(Render(shape, frame))
  <2>1. PICK s : s = [i \in 1 .. pixels |->
                       WritePixel(FIRST_BUFFER + (i - 1) * depth, shape.format,
                                  SubSeq(Rendering(shape, frame), (i - 1) * depth + 1, (i - 1 + 1) * depth))]
    OBVIOUS
  <2>2. ASSUME NEW i \in 1 .. pixels PROVE AllProper(s[i])
    <3>1. PICK addr \in Int : addr = FIRST_BUFFER + (i - 1) * depth
      BY Layout
    <3>2. addr + 2 < AUDIO_BASE
      <4>1. addr <= FIRST_BUFFER + pixels * depth
        <5>1. CASE depth = 4
          BY <3>1, <5>1, Layout
        <5>2. CASE depth = 3
          BY <3>1, <5>2, Layout
        <5>3. CASE depth = 1
          BY <3>1, <5>3, Layout
        <5> QED BY <1>6, <5>1, <5>2, <5>3
      <4> QED BY <1>5, <1>6, <1>7, <3>1, <4>1, Layout
    <3>3. PICK bytes : s[i] = WritePixel(addr, shape.format, bytes)
      BY <2>1, <3>1
    <3> QED BY <1>1, <3>2, <3>3, PixelProper
  <2>3. Render(shape, frame) = FlattenSeq(s)
    BY <1>5, <1>6, <2>1 DEF Render, Steps
  <2>4. s = [i \in 1 .. pixels |-> s[i]]
    BY <2>1
  <2> QED BY <1>5, <2>2, <2>3, <2>4, StepsProper
<1> QED BY <1>3, <1>4, <1>8, ConcatProper DEF PresentFrame

LEMMA CopyProper == AllProper(DmaCopy)
<1>1. /\ COPY_SIZE \in Nat /\ COPY_SIZE <= HALF
  BY BuffersAssumption, Layout
<1>2. \A i \in 0 .. COPY_SIZE - 1 : FIRST_BUFFER + i # AUDIO_BASE + 4 /\ SECOND_BUFFER + i # AUDIO_BASE + 4
  BY <1>1, Layout
<1>3. ASSUME NEW s, s = [i \in 1 .. COPY_SIZE |-> s[i]], \A i \in 1 .. COPY_SIZE : Proper(s[i])
      PROVE  AllProper(s)
  <2>1. Len([i \in 1 .. COPY_SIZE |-> s[i]]) = COPY_SIZE
    BY <1>1
  <2>2. Len(s) = COPY_SIZE
    BY <1>3, <2>1
  <2> QED BY <1>1, <1>3, <2>2 DEF AllProper, IsSeq
<1>4. PICK fill : fill = [i \in 1 .. COPY_SIZE |-> Write(FIRST_BUFFER + (i - 1), 1, (i - 1) % BYTE)]
  OBVIOUS
<1>5. PICK clear : clear = [i \in 1 .. COPY_SIZE |-> Write(SECOND_BUFFER + (i - 1), 1, 0)]
  OBVIOUS
<1>6. PICK verify : verify = [i \in 1 .. COPY_SIZE |-> Expect(SECOND_BUFFER + (i - 1), 1, (i - 1) % BYTE)]
  OBVIOUS
<1>7. AllProper(fill)
  <2>1. \A i \in 1 .. COPY_SIZE : Proper(fill[i])
    <3>1. \A i \in 1 .. COPY_SIZE : FIRST_BUFFER + (i - 1) # AUDIO_BASE + 4
      BY <1>1, <1>2
    <3> QED BY <1>4, <3>1, StepProper
  <2>2. fill = [i \in 1 .. COPY_SIZE |-> fill[i]]
    BY <1>4
  <2> QED BY <1>3, <2>1, <2>2
<1>8. AllProper(clear)
  <2>1. \A i \in 1 .. COPY_SIZE : Proper(clear[i])
    <3>1. \A i \in 1 .. COPY_SIZE : SECOND_BUFFER + (i - 1) # AUDIO_BASE + 4
      BY <1>1, <1>2
    <3> QED BY <1>5, <3>1, StepProper
  <2>2. clear = [i \in 1 .. COPY_SIZE |-> clear[i]]
    BY <1>5
  <2> QED BY <1>3, <2>1, <2>2
<1>9. AllProper(verify)
  <2>1. \A i \in 1 .. COPY_SIZE : Proper(verify[i])
    BY <1>6, StepProper
  <2>2. verify = [i \in 1 .. COPY_SIZE |-> verify[i]]
    BY <1>6
  <2> QED BY <1>3, <2>1, <2>2
<1>10. AllProper(DmaTransfer(FIRST_BUFFER, SECOND_BUFFER, COPY_SIZE))
  <2>1. \A k \in 0 .. 16 : DMA_BASE + k # AUDIO_BASE + 4 /\ DMA_BASE # AUDIO_BASE + 4
    BY Layout
  <2>2. PICK w, x, y, z :
          /\ w = Write(DMA_BASE, 4, FIRST_BUFFER)
          /\ x = Write(DMA_BASE + 4, 4, SECOND_BUFFER) /\ y = Write(DMA_BASE + 8, 4, COPY_SIZE)
          /\ z = Write(DMA_BASE + 16, 4, 1)
    OBVIOUS
  <2>3. Proper(w) /\ Proper(x) /\ Proper(y) /\ Proper(z)
    BY <2>1, <2>2, StepProper
  <2>4. AllProper(<<w, x>> \o <<y, z>>)
    BY <2>3, PairProper, ConcatProper
  <2>5. <<w, x, y, z>> = <<w, x>> \o <<y, z>>
    OBVIOUS
  <2> QED BY <2>2, <2>4, <2>5 DEF DmaTransfer
<1>11. AllProper(WaitForCompletion)
  BY StepProper, OneProper DEF WaitForCompletion
<1>12. DmaCopy = fill \o clear \o DmaTransfer(FIRST_BUFFER, SECOND_BUFFER, COPY_SIZE) \o WaitForCompletion \o verify
  BY <1>4, <1>5, <1>6 DEF DmaCopy, Steps
<1>13. AllProper(fill \o clear)
  BY <1>7, <1>8, ConcatProper
<1>14. AllProper(fill \o clear \o DmaTransfer(FIRST_BUFFER, SECOND_BUFFER, COPY_SIZE))
  BY <1>10, <1>13, ConcatProper
<1>15. AllProper(fill \o clear \o DmaTransfer(FIRST_BUFFER, SECOND_BUFFER, COPY_SIZE) \o WaitForCompletion)
  BY <1>11, <1>14, ConcatProper
<1> QED BY <1>9, <1>12, <1>15, ConcatProper

LEMMA BytesProper == AllProper(WriteStr(MESSAGE)) /\ AllProper(Echo)
<1>1. FIFO_BASE # AUDIO_BASE + 4
  BY Layout
<1>2. AllProper(WriteStr(MESSAGE))
  <2>1. PICK n \in Nat : DOMAIN MESSAGE = 1 .. n
    BY BuffersAssumption
  <2>2. PICK s : s = [i \in 1 .. n |-> <<WaitFor(FIFO_STATUS, TX_READY), Write(FIFO_BASE, 1, MESSAGE[i])>>]
    OBVIOUS
  <2>3. \A i \in 1 .. n : AllProper(s[i])
    BY <1>1, <2>2, StepProper, PairProper
  <2>4. s = [i \in 1 .. n |-> s[i]]
    BY <2>2
  <2> QED BY <2>1, <2>2, <2>3, <2>4, StepsProper DEF WriteStr
<1>3. AllProper(Echo)
  <2>1. PICK w, x, y, z :
          /\ w = Unless(FIFO_STATUS, RX_VALID, "success") /\ x = Take(FIFO_BASE)
          /\ y = Unless(FIFO_STATUS, TX_READY, "panic") /\ z = Give(FIFO_BASE)
    OBVIOUS
  <2>2. Proper(w) /\ Proper(x) /\ Proper(y) /\ Proper(z)
    BY <1>1, <2>1, StepProper
  <2>3. AllProper(<<w, x>> \o <<y, z>>)
    BY <2>2, PairProper, ConcatProper
  <2>4. <<w, x, y, z>> = <<w, x>> \o <<y, z>>
    OBVIOUS
  <2> QED BY <2>1, <2>3, <2>4 DEF Echo
<1> QED BY <1>2, <1>3

LEMMA RoundsKnown ==
  ASSUME NEW program \in Programs
  PROVE  Rounds(program) \in Nat /\ DOMAIN Listing[program] = 0 .. Rounds(program) + 1
<1>1. Rounds(program) \in Nat
  <2>1. TOTAL_SAMPLES \in Nat /\ BUFFER_SAMPLES \in Nat /\ BUFFER_SAMPLES > 0 /\ FRAMES \in Nat
    BY BuffersAssumption
  <2>2. Batches \in Nat
    <3>1. PICK a \in Nat : a = TOTAL_SAMPLES + BUFFER_SAMPLES - 1
      BY <2>1
    <3>2. a \div BUFFER_SAMPLES \in Nat
      BY <2>1, <3>1
    <3> QED BY <3>1, <3>2 DEF Batches
  <2> QED BY <2>1, <2>2 DEF Programs, Rounds, Endless
<1> QED BY <1>1 DEF Listing

\* No program sets a configuration but through ConfigureAudio.
LEMMA ListingProper ==
  ASSUME NEW program \in Programs, NEW round \in DOMAIN Listing[program]
  PROVE  AllProper(Listing[program][round])
<1>1. round \in Int /\ (round # 0 => round >= 1)
  BY RoundsKnown
<1>2. /\ BUFFER_SAMPLES \in Int /\ BUFFER_SAMPLES <= BUFFER_SAMPLES /\ TOTAL_SAMPLES \in Int
      /\ VIDEO_SHAPE.loop \in {VIDEO_SHAPE.pattern, VIDEO_SHAPE.loop}
      /\ VIDEO_SHAPE.pattern \in {VIDEO_SHAPE.pattern, VIDEO_SHAPE.loop}
  BY BuffersAssumption
<1>3. AllProper(Prologue(program))
  <2>1. CASE program = "audio_pattern"
    BY <1>2, <2>1, AudioProper DEF Prologue
  <2>2. CASE program = "audio_loop"
    BY <1>2, <2>2, AudioProper, ConcatProper DEF Prologue
  <2>3. CASE program = "sim_view"
    <3>1. AllProper(ConfigureVideo(VIDEO_SHAPE.loop) \o WriteSamples(0, BUFFER_SAMPLES))
      BY <1>2, AudioProper, VideoProper, ConcatProper
    <3> QED BY <1>2, <2>3, <3>1, AudioProper, ConcatProper DEF Prologue
  <2>4. CASE program \in {"video_pattern", "video_loop"}
    BY <1>2, <2>4, VideoProper DEF Prologue
  <2>5. CASE program \in {"dma_copy", "println", "echo"}
    BY <2>5, CopyProper, BytesProper, NoneProper DEF Prologue
  <2> QED BY <2>1, <2>2, <2>3, <2>4, <2>5 DEF Programs, Endless
<1>4. program \notin {"dma_copy", "println"} => AllProper(Turn(program, round))
  <2>1. CASE program = "audio_pattern"
    <3>1. BatchSize(round) \in Int /\ BatchSize(round) <= BUFFER_SAMPLES
      BY <1>1, <1>2 DEF BatchSize, BatchStart
    <3>2. PICK n \in Int : n = BatchSize(round) /\ n <= BUFFER_SAMPLES
      BY <3>1
    <3>3. AllProper(WriteSamples(BatchStart(round), n) \o ConfigureAudio(n))
      BY <3>2, AudioProper, ConcatProper
    <3>4. AllProper(WriteSamples(BatchStart(round), n) \o ConfigureAudio(n) \o WaitForDmaReady)
      BY <1>2, <3>3, AudioProper, ConcatProper
    <3>5. AllProper(WriteSamples(BatchStart(round), n) \o ConfigureAudio(n) \o WaitForDmaReady \o WaitForSampleBuffer)
      BY <1>2, <3>4, AudioProper, ConcatProper
    <3> QED BY <1>2, <2>1, <3>2, <3>5, AudioProper, ConcatProper DEF Turn, AudioBatch
  <2>2. CASE program = "audio_loop"
    BY <1>2, <2>2, AudioProper, ConcatProper DEF Turn
  <2>3. CASE program = "sim_view"
    BY <1>2, <2>3, AudioProper, VideoProper, ConcatProper DEF Turn
  <2>4. CASE program \in {"video_pattern", "video_loop"}
    BY <1>2, <2>4, VideoProper DEF Turn
  <2>5. CASE program = "echo"
    BY <2>5, BytesProper DEF Turn
  <2> QED BY <2>1, <2>2, <2>3, <2>4, <2>5 DEF Programs, Endless
<1>5. AllProper(Epilogue(program))
  <2>1. AllProper(WaitForPresentReady)
    BY StepProper, OneProper DEF WaitForPresentReady
  <2>2. AllProper(WaitForDmaReady)
    BY <1>2, AudioProper
  <2> QED BY <2>1, <2>2, NoneProper DEF Epilogue
<1>6. Listing[program][round] \in {Prologue(program), Turn(program, round), Epilogue(program)}
      /\ (Rounds(program) = 0 => Listing[program][round] \in {Prologue(program), Epilogue(program)})
  BY <1>1 DEF Listing
<1>7. program \in {"dma_copy", "println"} => Rounds(program) = 0
  BY DEF Rounds, Endless
<1> QED BY <1>3, <1>4, <1>5, <1>6, <1>7

(***************************************************************************)
(* A program as it runs                                                    *)
(***************************************************************************)
GuestShape(g) == /\ DOMAIN g = {"program", "round", "pc", "kept", "code"}
                 /\ g.program \in Programs /\ g.round \in DOMAIN Listing[g.program]

\* It is in one of its rounds, or exits.
GuestRuns(g) == GuestShape(g) /\ g.pc \in Nat \ {0}

LEMMA ExitRuns ==
  ASSUME NEW g, GuestShape(g), NEW code
  PROVE  GuestRuns(Exit(g, code)) /\ Exit(g, code).program = g.program
BY DEF GuestShape, GuestRuns, Exit

LEMMA EnterRuns ==
  ASSUME NEW g, GuestShape(g), NEW round
  PROVE  GuestRuns(Enter(g, round)) /\ Enter(g, round).program = g.program
<1>1. PICK left : left = {r \in DOMAIN Listing[g.program] : r >= round /\ Listing[g.program][r] # << >>}
  OBVIOUS
<1>2. CASE left = {}
  BY <1>1, <1>2, ExitRuns DEF Enter
<1>3. CASE left # {}
  <2>1. left \subseteq Nat
    BY <1>1, RoundsKnown DEF GuestShape
  <2>2. Min(left) \in left
    BY <1>3, <2>1, Least DEF Min
  <2>3. PICK least \in DOMAIN Listing[g.program] : least = Min(left)
    BY <1>1, <2>2
  <2>4. Enter(g, round) = [g EXCEPT !.round = least, !.pc = 1]
    BY <1>1, <1>3, <2>3 DEF Enter
  <2> QED BY <2>4 DEF GuestShape, GuestRuns
<1> QED BY <1>2, <1>3

LEMMA NextRoundRuns ==
  ASSUME NEW g, GuestShape(g)
  PROVE  GuestRuns(NextRound(g)) /\ NextRound(g).program = g.program
BY EnterRuns DEF NextRound

LEMMA SectionProper ==
  ASSUME NEW g, GuestRuns(g), ~Off(g)
  PROVE  /\ AllProper(Section(g)) /\ g.pc \in 1 .. Len(Section(g))
         /\ Proper(Section(g)[g.pc])
<1>1. AllProper(Section(g))
  <2>1. CASE g.code = 0
    BY <2>1, ListingProper DEF Section, GuestRuns, GuestShape
  <2>2. CASE g.code # 0
    <3>1. SIM_CONTROL_BASE # AUDIO_BASE + 4
      BY Layout
    <3> QED BY <2>2, <3>1, StepProper, OneProper DEF Section, WriteTohost
  <2> QED BY <2>1, <2>2
<1>2. g.pc \in 1 .. Len(Section(g))
  BY <1>1 DEF Off, GuestRuns, AllProper, IsSeq
<1> QED BY <1>1, <1>2 DEF AllProper

LEMMA AdvanceRuns ==
  ASSUME NEW g, GuestRuns(g)
  PROVE  GuestRuns(Advance(g)) /\ Advance(g).program = g.program
<1>1. GuestShape(g)
  BY DEF GuestRuns
<1>2. GuestRuns([g EXCEPT !.pc = @ + 1]) /\ [g EXCEPT !.pc = @ + 1].program = g.program
  BY DEF GuestRuns, GuestShape
<1> QED BY <1>1, <1>2, NextRoundRuns DEF Advance

LEMMA ContinueRuns ==
  ASSUME NEW g, GuestRuns(g), ~Off(g), NEW answer
  PROVE  GuestRuns(Continue(g, answer)) /\ Continue(g, answer).program = g.program
<1>1. GuestShape(g)
  BY DEF GuestRuns
<1>2. PICK step : step = Section(g)[g.pc]
  OBVIOUS
<1>3. PICK keeping : keeping = [g EXCEPT !.kept = IF step.test = "nonzero" THEN answer ELSE @]
  OBVIOUS
<1>4. GuestRuns(keeping) /\ keeping.program = g.program
  BY <1>3 DEF GuestRuns, GuestShape
<1>5. CASE Passes(step, answer)
  BY <1>2, <1>3, <1>4, <1>5, AdvanceRuns DEF Continue
<1>6. CASE ~Passes(step, answer)
  <2>1. step.else \in {"same", "round", "success", "failure", "panic"}
    BY <1>2, <1>6, SectionProper DEF Proper, Passes
  <2>2. CASE step.else = "same"
    BY <1>2, <1>6, <2>2 DEF Continue
  <2>3. CASE step.else = "round"
    BY <1>1, <1>2, <1>6, <2>3, NextRoundRuns DEF Continue
  <2>4. CASE step.else \in {"success", "failure", "panic"}
    BY <1>1, <1>2, <1>6, <2>4, ExitRuns DEF Continue
  <2> QED BY <2>1, <2>2, <2>3, <2>4
<1> QED BY <1>5, <1>6

LEMMA StartRuns ==
  ASSUME NEW program \in Programs
  PROVE  GuestRuns(Boot(program)) /\ Boot(program).program = program
<1>1. PICK g : g = [program |-> program, round |-> 0, pc |-> 1, kept |-> 0, code |-> 0]
  OBVIOUS
<1>2. GuestShape(g) /\ g.program = program
  BY <1>1, RoundsKnown DEF GuestShape
<1> QED BY <1>1, <1>2, EnterRuns DEF Boot

\* What it writes to the configuration register.
LEMMA RequestSets ==
  ASSUME NEW g, GuestRuns(g), ~Off(g), NEW a, a = Request(g), a.write, a.addr = AUDIO_BASE + 4
  PROVE  a.value \in Settings
<1>1. PICK step : step = Section(g)[g.pc]
  OBVIOUS
<1>2. /\ a.write = step.write /\ a.addr = step.addr
      /\ a.value = IF step.test = "kept" THEN g.kept ELSE step.value
  BY <1>1 DEF Request
<1> QED BY <1>1, <1>2, SectionProper DEF Proper

\* Every such value is a configuration, and not the one there is before the first.
LEMMA SettingsValid ==
  ASSUME NEW value \in Settings
  PROVE  AudioFromRegister(value).valid /\ value # NoConfig
<1>1. PICK n \in Int : value = AudioToRegister(Stereo(n))
  BY DEF Settings
<1>2. PICK k \in Nat : value = 4 + 8 * k
  <2>1. CASE n \in 1 .. COUNT_FIELD
    <3>1. n - 1 \in Nat
      BY <2>1, FieldAssumption
    <3>2. value = 4 + 8 * (n - 1)
      BY <1>1, <2>1, <3>1 DEF AudioToRegister, Stereo
    <3> QED BY <3>1, <3>2
  <2>2. CASE n \notin 1 .. COUNT_FIELD
    <3>1. value = 4 + 8 * 0
      BY <1>1, <2>2 DEF AudioToRegister, Stereo
    <3> QED BY <3>1
  <2> QED BY <2>1, <2>2
<1>3. value % 4 = 0 /\ value # 0
  BY <1>2
<1> QED BY <1>3 DEF AudioFromRegister, Rates, NoConfig

(***************************************************************************)
(* The map and the devices                                                 *)
(***************************************************************************)
AudioAtBase(map) ==
  /\ IsSeq(map)
  /\ \A i \in 1 .. Len(map) : map[i].dev = "audio" => map[i].base = AUDIO_BASE /\ map[i].end \in Int

LEMMA RegisterKeeps ==
  ASSUME NEW map, AudioAtBase(map), NEW base, NEW size, NEW dev, dev = "audio" => base = AUDIO_BASE /\ size \in Int
  PROVE  AudioAtBase(RegisterDevice(map, base, size, dev))
<1>1. PICK entry : entry = Entry(base, size, dev)
  OBVIOUS
<1>2. entry.dev = dev /\ entry.base = base
  BY <1>1 DEF Entry
<1>3. dev = "audio" => entry.end \in Int
  <2>1. WORD \in Int
    BY Layout
  <2>2. dev = "audio" => base + size \in Int
    BY Layout
  <2> QED BY <1>1, <2>1, <2>2 DEF Entry, Saturating
<1>4. PICK one : one = <<entry>>
  OBVIOUS
<1>5. IsSeq(one) /\ Len(one) = 1 /\ one[1] = entry
  BY <1>4 DEF IsSeq
<1>6. IsSeq(map) /\ Len(map) \in Nat
  BY DEF AudioAtBase, IsSeq
<1>7. PICK more : more = map \o one
  OBVIOUS
<1>8. /\ IsSeq(more) /\ Len(more) = Len(map) + 1 /\ more[Len(map) + 1] = entry
      /\ \A i \in 1 .. Len(map) : more[i] = map[i]
  <2>1. /\ IsSeq(map \o one) /\ Len(map \o one) = Len(map) + Len(one)
        /\ \A i \in 1 .. Len(map) : (map \o one)[i] = map[i]
        /\ \A i \in 1 .. Len(one) : (map \o one)[Len(map) + i] = one[i]
    <3>1. IsSeq(map) /\ IsSeq(one)
      BY <1>5, <1>6
    <3> QED BY <3>1, ConcatSeq
  <2>2. 1 \in 1 .. Len(one)
    BY <1>5
  <2> QED BY <1>5, <1>7, <2>1, <2>2
<1>9. AudioAtBase(more)
  <2>1. \A i \in 1 .. Len(map) + 1 : i \in 1 .. Len(map) \/ i = Len(map) + 1
    BY <1>6
  <2> QED BY <1>2, <1>8, <1>3, <2>1 DEF AudioAtBase
<1>10. Append(map, entry) = more
  BY <1>4, <1>6, <1>7, ElemsSeq
<1> QED BY <1>1, <1>9, <1>10 DEF RegisterDevice

LEMMA MapKnown ==
  ASSUME NEW program \in Run
  PROVE  AudioAtBase(MapOf[program])
<1>1. AudioAtBase(InternalMap)
  <2>1. PICK a, b : a = Entry(SIM_CONTROL_BASE, 4, "sim_control") /\ b = Entry(DRAM_BASE, WORD \div 16, "dram")
    OBVIOUS
  <2>2. a.dev = "sim_control" /\ b.dev = "dram"
    BY <2>1 DEF Entry
  <2>3. PICK s : s = <<a, b>>
    OBVIOUS
  <2>4. Len(s) = 2 /\ s[1] = a /\ s[2] = b /\ s = [i \in 1 .. 2 |-> s[i]]
    BY <2>3
  <2>5. \A i \in 1 .. Len(s) : s[i] \in {a, b}
    BY <2>4
  <2>6. AudioAtBase(s)
    BY <2>2, <2>4, <2>5 DEF AudioAtBase, IsSeq
  <2> QED BY <2>1, <2>3, <2>6 DEF InternalMap
<1>2. PICK f : f = RegisterDevice(InternalMap, FIFO_BASE, 8, "fifo")
  OBVIOUS
<1>3. PICK v : v = RegisterDevice(InternalMap, VIDEO_BASE, 16, "video")
  OBVIOUS
<1>4. AudioAtBase(f) /\ AudioAtBase(v)
  BY <1>1, <1>2, <1>3, RegisterKeeps
<1>5. AudioAtBase(RegisterDevice(f, DMA_BASE, 20, "dma"))
  BY <1>4, RegisterKeeps
<1>6. AudioAtBase(RegisterDevice(v, AUDIO_BASE, 16, "audio"))
  BY <1>4, RegisterKeeps
<1> QED BY <1>2, <1>3, <1>5, <1>6 DEF MapOf

LEMMA FindIs ==
  ASSUME NEW map, IsSeq(map), NEW addr
  PROVE  \/ FindDevice(map, addr) = 0
         \/ /\ FindDevice(map, addr) \in 1 .. Len(map)
            /\ addr \in map[FindDevice(map, addr)].base .. map[FindDevice(map, addr)].end - 1
<1>1. PICK holding : holding = {i \in DOMAIN map : addr \in map[i].base .. map[i].end - 1}
  OBVIOUS
<1>2. DOMAIN map = 1 .. Len(map) /\ Len(map) \in Nat
  BY DEF IsSeq
<1>3. CASE holding # {}
  <2>1. holding \subseteq Nat
    BY <1>1, <1>2
  <2>2. \E i \in holding : \A j \in holding : i <= j
    BY <1>3, <2>1, Least
  <2>3. FindDevice(map, addr) \in holding
    BY <1>1, <1>3, <2>2 DEF FindDevice
  <2> QED BY <1>1, <1>2, <2>3
<1>4. CASE holding = {}
  BY <1>1, <1>4 DEF FindDevice
<1> QED BY <1>3, <1>4

\* The fields of the audio device and of the bus.
AudioShape(d) == DOMAIN d = {"addr", "config", "dma", "samples", "window"}

BusShape(b) == DOMAIN b = {"mem", "tohost", "dma", "fifo", "audio", "video"} /\ AudioShape(b.audio)

\* Nothing but a write to the register changes the configuration of the device.
LEMMA AudioKeeps ==
  ASSUME NEW d, AudioShape(d), NEW mem
  PROVE  /\ AudioShape(AudioElapse(d)) /\ AudioElapse(d).config = d.config
         /\ AudioShape(AudioTick(d, mem)[1]) /\ AudioTick(d, mem)[1].config = d.config
         /\ AudioShape(StartDma(d)) /\ StartDma(d).config = d.config
<1>1. AudioShape(AudioElapse(d)) /\ AudioElapse(d).config = d.config
  BY DEF AudioShape, AudioElapse
<1>2. \A new : AudioShape([d EXCEPT !.dma = new]) /\ [d EXCEPT !.dma = new].config = d.config
  BY DEF AudioShape
<1>3. ASSUME NEW e, AudioShape(e), NEW count
      PROVE  AudioShape(AfterSamples(e, count)) /\ AfterSamples(e, count).config = e.config
  BY <1>3 DEF AudioShape, AfterSamples
<1>4. AudioShape(DmaChunk(d, mem)[1]) /\ DmaChunk(d, mem)[1].config = d.config
  <2>1. PICK chunk, data, config :
          /\ chunk = ReadMemoryChunk(mem, d.dma.addr, d.dma.remaining) /\ data = d.dma.data \o chunk
          /\ config = AudioFromRegister(d.dma.config)
    OBVIOUS
  <2>2. PICK none, more :
          /\ none = [d EXCEPT !.dma = NoDma]
          /\ more = [d EXCEPT !.dma = [remaining |-> @.remaining - Len(chunk),
                                       addr |-> (@.addr + Len(chunk)) % WORD,
                                       data |-> data, config |-> @.config]]
    OBVIOUS
  <2>3. AudioShape(none) /\ none.config = d.config /\ AudioShape(more) /\ more.config = d.config
    BY <1>2, <2>2 DEF AudioShape
  <2>4. PICK after : after = AfterSamples(none, config.count)
    OBVIOUS
  <2>5. AudioShape(after) /\ after.config = d.config
    BY <1>3, <2>3, <2>4
  <2>6. DmaChunk(d, mem)[1] = IF Len(chunk) = d.dma.remaining THEN after ELSE more
    BY <2>1, <2>2, <2>4 DEF DmaChunk
  <2> QED BY <2>3, <2>5, <2>6
<1>5. AudioShape(AudioTick(d, mem)[1]) /\ AudioTick(d, mem)[1].config = d.config
  BY <1>4 DEF AudioTick
<1>6. AudioShape(StartDma(d)) /\ StartDma(d).config = d.config
  BY <1>2 DEF StartDma
<1> QED BY <1>1, <1>5, <1>6

LEMMA AudioWritten ==
  ASSUME NEW d, AudioShape(d), NEW offset, NEW size, NEW value
  PROVE  /\ AudioShape(AudioWrite(d, offset, size, value))
         /\ AudioWrite(d, offset, size, value).config = IF offset = 4 /\ size = 4 THEN value ELSE d.config
<1>1. CASE size # 4
  BY <1>1 DEF AudioWrite
<1>2. CASE size = 4 /\ offset = 0
  BY <1>2 DEF AudioWrite, AudioShape
<1>3. CASE size = 4 /\ offset = 4
  <2>1. PICK e : e = [d EXCEPT !.config = value, !.samples = 0, !.window = WINDOW]
    OBVIOUS
  <2>2. AudioShape(e) /\ e.config = value
    BY <2>1 DEF AudioShape
  <2>3. AudioWrite(d, offset, size, value) = e
    BY <1>3, <2>1 DEF AudioWrite, HandleConfigWrite
  <2> QED BY <1>3, <2>2, <2>3
<1>4. CASE size = 4 /\ offset \notin {0, 4}
  BY <1>4, AudioKeeps DEF AudioWrite
<1> QED BY <1>1, <1>2, <1>3, <1>4

\* An access leaves the configuration as it is and makes no call for it, or sets it and hands it on.
Tells(bus1, bus2, calls) ==
  \/ bus2.audio.config = bus1.audio.config /\ calls.audio_config = << >>
  \/ bus2.audio.config \in Settings /\ calls.audio_config = <<bus2.audio.config>>

LEMMA WriteTells ==
  ASSUME NEW b, BusShape(b), NEW dev, NEW offset, NEW size, NEW value,
         dev = "audio" /\ offset = 4 => value \in Settings
  PROVE  /\ BusShape(DeviceWrite(b, dev, offset, size, value))
         /\ Tells(b, DeviceWrite(b, dev, offset, size, value), WriteCalls(dev, offset, size, value))
<1> DEFINE c == DeviceWrite(b, dev, offset, size, value)
           calls == WriteCalls(dev, offset, size, value)
<1>1. CASE dev = "audio"
  <2>1. PICK d : d = AudioWrite(b.audio, offset, size, value)
    OBVIOUS
  <2>2. AudioShape(d) /\ d.config = IF offset = 4 /\ size = 4 THEN value ELSE b.audio.config
    BY <2>1, AudioWritten DEF BusShape
  <2>3. c = [b EXCEPT !.audio = d]
    BY <1>1, <2>1 DEF DeviceWrite
  <2>4. BusShape(c) /\ c.audio = d
    BY <2>2, <2>3 DEF BusShape
  <2>5. calls.audio_config = ConfigCall(offset, size, value)
    BY <1>1 DEF WriteCalls, NoCalls
  <2>6. ConfigCall(offset, size, value) = IF offset = 4 /\ size = 4 THEN <<value>> ELSE << >>
    BY <1>1, SettingsValid DEF ConfigCall
  <2> QED BY <1>1, <2>2, <2>4, <2>5, <2>6 DEF Tells
<1>2. CASE dev # "audio"
  <2>1. BusShape(c) /\ c.audio = b.audio
    BY <1>2 DEF DeviceWrite, BusShape
  <2>2. calls.audio_config = << >>
    BY <1>2 DEF WriteCalls, NoCalls
  <2> QED BY <2>1, <2>2 DEF Tells
<1> QED BY <1>1, <1>2

LEMMA AccessTells ==
  ASSUME NEW map, AudioAtBase(map), NEW b, BusShape(b), NEW a,
         a.write /\ a.addr = AUDIO_BASE + 4 => a.value \in Settings
  PROVE  BusShape(BusAccess(map, b, a)[1]) /\ Tells(b, BusAccess(map, b, a)[1], BusAccess(map, b, a)[2])
<1>1. PICK i : i = FindDevice(map, a.addr)
  OBVIOUS
<1>2. NoCalls.audio_config = << >>
  BY DEF NoCalls
<1>3. CASE i = 0
  BY <1>1, <1>2, <1>3 DEF BusAccess, Tells
<1>4. CASE i # 0 /\ a.write
  <2>1. PICK dev, offset : dev = map[i].dev /\ offset = a.addr - map[i].base
    OBVIOUS
  <2>2. dev = "audio" /\ offset = 4 => a.value \in Settings
    <3>1. ASSUME dev = "audio", offset = 4 PROVE a.addr = AUDIO_BASE + 4
      <4>1. i \in 1 .. Len(map) /\ a.addr \in map[i].base .. map[i].end - 1
        BY <1>1, <1>4, FindIs DEF AudioAtBase
      <4>2. map[i].base = AUDIO_BASE /\ map[i].end \in Int
        BY <2>1, <3>1, <4>1 DEF AudioAtBase
      <4>3. PICK end \in Int : end = map[i].end
        BY <4>2
      <4>4. a.addr \in AUDIO_BASE .. end - 1
        BY <4>1, <4>2, <4>3
      <4>5. a.addr \in Int
        BY <4>4, Layout
      <4> QED BY <2>1, <3>1, <4>2, <4>5, Layout
    <3> QED BY <1>4, <3>1
  <2>3. PICK c, calls : c = DeviceWrite(b, dev, offset, a.size, a.value)
                        /\ calls = WriteCalls(dev, offset, a.size, a.value)
    OBVIOUS
  <2>4. BusShape(c) /\ Tells(b, c, calls)
    BY <2>2, <2>3, WriteTells
  <2>5. BusAccess(map, b, a) = <<c, calls>>
    BY <1>1, <1>4, <2>1, <2>3 DEF BusAccess
  <2> QED BY <2>4, <2>5
<1>5. CASE i # 0 /\ ~a.write
  <2>1. PICK c : c = AfterDeviceRead(b, map[i].dev, a.addr - map[i].base, a.size)
    OBVIOUS
  <2>2. BusShape(c) /\ c.audio = b.audio
    BY <2>1 DEF AfterDeviceRead, BusShape
  <2>3. BusAccess(map, b, a) = <<c, NoCalls>>
    BY <1>1, <1>5, <2>1 DEF BusAccess
  <2> QED BY <1>2, <2>2, <2>3 DEF Tells
<1> QED BY <1>3, <1>4, <1>5

LEMMA BusKeeps ==
  ASSUME NEW b, BusShape(b)
  PROVE  /\ BusShape(ClockAll(b)[1]) /\ ClockAll(b)[1].audio.config = b.audio.config
         /\ BusShape(Elapse(b)) /\ Elapse(b).audio.config = b.audio.config
         /\ BusShape(AcknowledgeTermination(b)) /\ AcknowledgeTermination(b).audio = b.audio
<1>1. BusShape(AcknowledgeTermination(b)) /\ AcknowledgeTermination(b).audio = b.audio
  BY DEF BusShape, AcknowledgeTermination
<1>2. BusShape(Elapse(b)) /\ Elapse(b).audio.config = b.audio.config
  <2>1. PICK d : d = AudioElapse(b.audio)
    OBVIOUS
  <2>2. AudioShape(d) /\ d.config = b.audio.config
    BY <2>1, AudioKeeps DEF BusShape
  <2>3. Elapse(b) = [b EXCEPT !.audio = d, !.video = VideoElapse(@)]
    BY <2>1 DEF Elapse, BusShape
  <2> QED BY <2>2, <2>3 DEF BusShape
<1>3. BusShape(ClockAll(b)[1]) /\ ClockAll(b)[1].audio.config = b.audio.config
  <2>1. PICK d, v, m, n : /\ d = AudioTick(b.audio, b.mem)[1] /\ v = VideoTick(b.video, b.mem)[1]
                          /\ m = DmaTick(b.dma, b.mem)[1] /\ n = DmaTick(b.dma, b.mem)[2]
    OBVIOUS
  <2>2. AudioShape(d) /\ d.config = b.audio.config
    BY <2>1, AudioKeeps DEF BusShape
  <2>3. ClockAll(b)[1] = [b EXCEPT !.audio = d, !.video = v, !.dma = m, !.mem = n]
    BY <2>1 DEF ClockAll
  <2> QED BY <2>2, <2>3 DEF BusShape
<1> QED BY <1>1, <1>2, <1>3

(***************************************************************************)
(* The inductive invariant: the last of the configurations on their way,   *)
(* or else the one the viewer has in hand, or else the one in place, is    *)
(* that of the device.                                                     *)
(***************************************************************************)
Agreed ==
  \/ audio_config # << >> /\ audio_config[Len(audio_config)] = bus.audio.config
  \/ audio_config = << >> /\ held # NoConfig /\ held = bus.audio.config
  \/ audio_config = << >> /\ held = NoConfig /\ audio_buffer.config = bus.audio.config
     /\ backend = bus.audio.config

ConfigInv ==
  /\ guest.program \in Run /\ GuestRuns(guest) /\ BusShape(bus)
  /\ DOMAIN audio_buffer = {"chunks", "config"}
  /\ audio_config \in Seq(Settings)
  /\ IF viewer = "set_config" THEN held \in Settings ELSE held = NoConfig
  /\ Agreed

LEMMA InitSettled == Init => ConfigInv
<1> SUFFICES ASSUME Init PROVE ConfigInv
  OBVIOUS
<1>1. PICK program \in Run :
        /\ guest = Boot(program)
        /\ bus = IF Console(program) THEN [NewDevices EXCEPT !.fifo = PushString(<< >>, INPUT)]
                 ELSE NewDevices
        /\ viewer = IF Console(program) THEN "console" ELSE "events"
  BY DEF Init
<1>2. guest.program \in Run /\ GuestRuns(guest)
  BY <1>1, StartRuns, RunAssumption
<1>3. BusShape(bus) /\ bus.audio.config = NoConfig
  <2>1. BusShape(NewDevices) /\ NewDevices.audio.config = NoConfig
    BY DEF NewDevices, BusShape, AudioShape, AudioReset, NoConfig
  <2>2. \A q : BusShape([NewDevices EXCEPT !.fifo = q]) /\ [NewDevices EXCEPT !.fifo = q].audio.config = NoConfig
    BY <2>1 DEF BusShape
  <2> QED BY <1>1, <2>1, <2>2
<1>4. /\ audio_buffer = NewAudioBuffer /\ audio_config = << >> /\ held = NoConfig /\ backend = NoConfig
  BY DEF Init
<1>5. DOMAIN audio_buffer = {"chunks", "config"} /\ audio_buffer.config = NoConfig
  BY <1>4 DEF NewAudioBuffer
<1> QED BY <1>1, <1>2, <1>3, <1>4, <1>5 DEF ConfigInv, Agreed

LEMMA PushKeeps ==
  ASSUME NEW buffer, DOMAIN buffer = {"chunks", "config"}
  PROVE  /\ \A samples : /\ DOMAIN PushSamples(buffer, samples) = {"chunks", "config"}
                         /\ PushSamples(buffer, samples).config = buffer.config
         /\ \A config : /\ DOMAIN SetConfig(buffer, config) = {"chunks", "config"}
                        /\ SetConfig(buffer, config).config = config
         /\ \A chunks : /\ DOMAIN [buffer EXCEPT !.chunks = chunks] = {"chunks", "config"}
                        /\ [buffer EXCEPT !.chunks = chunks].config = buffer.config
BY DEF PushSamples, SetConfig

LEMMA AccessSettled == ConfigInv /\ GuestAccess => ConfigInv'
<1> SUFFICES ASSUME ConfigInv, GuestAccess PROVE ConfigInv'
  OBVIOUS
<1>1. PICK access, answer, after, config :
        /\ access = Request(guest) /\ after = BusAccess(Map, bus, access) /\ config = after[2].audio_config
        /\ bus' = after[1] /\ guest' = Continue(guest, answer)
        /\ audio_config' = audio_config \o config
        /\ audio_buffer' = IF config = << >> THEN audio_buffer ELSE SetConfig(audio_buffer, config[1])
  BY DEF GuestAccess
<1>2. ~Off(guest) /\ viewer' = viewer /\ held' = held /\ backend' = backend
  BY DEF GuestAccess, view_vars
<1>3. guest'.program \in Run /\ GuestRuns(guest')
  BY <1>1, <1>2, ContinueRuns DEF ConfigInv
<1>4. access.write /\ access.addr = AUDIO_BASE + 4 => access.value \in Settings
  BY <1>1, <1>2, RequestSets DEF ConfigInv
<1>5. PICK map : map = Map /\ AudioAtBase(map)
  BY MapKnown DEF ConfigInv, Map
<1>6. BusShape(bus') /\ Tells(bus, bus', after[2])
  <2>1. after = BusAccess(map, bus, access)
    BY <1>1, <1>5
  <2>2. BusShape(BusAccess(map, bus, access)[1])
        /\ Tells(bus, BusAccess(map, bus, access)[1], BusAccess(map, bus, access)[2])
    BY <1>4, <1>5, AccessTells DEF ConfigInv
  <2> QED BY <1>1, <2>1, <2>2
<1>7. DOMAIN audio_buffer' = {"chunks", "config"}
  BY <1>1, PushKeeps DEF ConfigInv
<1>8. CASE bus'.audio.config = bus.audio.config /\ config = << >>
  <2>1. audio_config' = audio_config /\ audio_buffer' = audio_buffer
    BY <1>1, <1>8 DEF ConfigInv
  <2> QED BY <1>2, <1>3, <1>6, <1>7, <1>8, <2>1 DEF ConfigInv, Agreed
<1>9. CASE bus'.audio.config \in Settings /\ config = <<bus'.audio.config>>
  <2>1. PICK value \in Settings : value = bus'.audio.config
    BY <1>9
  <2>2. audio_config' = Append(audio_config, value) /\ audio_config \in Seq(Settings)
    BY <1>1, <1>9, <2>1 DEF ConfigInv
  <2>3. /\ audio_config' \in Seq(Settings) /\ audio_config' # << >>
        /\ audio_config'[Len(audio_config')] = value
    BY <2>1, <2>2
  <2> QED BY <1>2, <1>3, <1>6, <1>7, <2>1, <2>3 DEF ConfigInv, Agreed
<1> QED BY <1>1, <1>6, <1>8, <1>9 DEF Tells

LEMMA TickSettled == ConfigInv /\ (Tick \/ UpdateElapsedTime) => ConfigInv'
<1> SUFFICES ASSUME ConfigInv, Tick \/ UpdateElapsedTime PROVE ConfigInv'
  OBVIOUS
<1>1. /\ viewer' = viewer /\ held' = held /\ backend' = backend /\ guest' = guest
      /\ audio_config' = audio_config
  BY DEF Tick, UpdateElapsedTime, view_vars
<1>2. BusShape(bus') /\ bus'.audio.config = bus.audio.config
  <2>1. CASE Tick
    <3>1. PICK b : b = ClockAll(bus)[1] /\ bus' = AcknowledgeTermination(b)
      BY <2>1 DEF Tick
    <3>2. BusShape(b) /\ b.audio.config = bus.audio.config
      BY <3>1, BusKeeps DEF ConfigInv
    <3> QED BY <3>1, <3>2, BusKeeps
  <2>2. CASE UpdateElapsedTime
    <3>1. bus' = Elapse(bus)
      BY <2>2 DEF UpdateElapsedTime
    <3> QED BY <3>1, BusKeeps DEF ConfigInv
  <2> QED BY <2>1, <2>2
<1>3. DOMAIN audio_buffer' = {"chunks", "config"} /\ audio_buffer'.config = audio_buffer.config
  <2>1. audio_buffer' = audio_buffer \/ \E samples : audio_buffer' = PushSamples(audio_buffer, samples)
    BY DEF Tick, UpdateElapsedTime
  <2> QED BY <2>1, PushKeeps DEF ConfigInv
<1> QED BY <1>1, <1>2, <1>3 DEF ConfigInv, Agreed

LEMMA ReloadSettled == ConfigInv /\ LoadElf => ConfigInv'
<1> SUFFICES ASSUME ConfigInv, LoadElf PROVE ConfigInv'
  OBVIOUS
<1>1. /\ guest' = Boot(guest.program) /\ bus' = AcknowledgeTermination(bus)
      /\ viewer # "set_config" /\ viewer' # "set_config" /\ held' = held /\ backend' = backend
      /\ audio_config' = audio_config /\ audio_buffer' = audio_buffer
  BY DEF LoadElf, Goes
<1>2. guest'.program \in Run /\ GuestRuns(guest')
  BY <1>1, StartRuns, RunAssumption DEF ConfigInv
<1>3. BusShape(bus') /\ bus'.audio = bus.audio
  BY <1>1, BusKeeps DEF ConfigInv
<1> QED BY <1>1, <1>2, <1>3 DEF ConfigInv, Agreed

LEMMA TakeSettled == ConfigInv /\ TakeConfig => ConfigInv'
<1> SUFFICES ASSUME ConfigInv, TakeConfig PROVE ConfigInv'
  OBVIOUS
<1>1. /\ audio_config # << >> /\ held' = Head(audio_config) /\ audio_config' = Tail(audio_config)
      /\ viewer' = "set_config" /\ audio_config \in Seq(Settings)
      /\ bus' = bus /\ guest' = guest /\ audio_buffer' = audio_buffer /\ backend' = backend
  BY DEF TakeConfig, ConfigInv, Goes, sim_vars
<1>2. held' \in Settings /\ held' # NoConfig /\ audio_config' \in Seq(Settings)
  BY <1>1, SettingsValid
<1>3. audio_config[Len(audio_config)] = bus.audio.config
  BY <1>1 DEF ConfigInv, Agreed
<1>4. CASE audio_config' = << >>
  <2>1. Len(audio_config) = 1
    <3>1. ASSUME NEW s \in Seq(Settings), s # << >>, Tail(s) = << >>
          PROVE  Len(s) = 1
      <4>1. Len(Tail(s)) = Len(s) - 1
        BY <3>1
      <4>2. Len(<< >>) = 0
        OBVIOUS
      <4> QED BY <3>1, <4>1, <4>2
    <3> QED BY <1>1, <1>4, <3>1
  <2>2. held' = audio_config[Len(audio_config)]
    BY <1>1, <2>1
  <2> QED BY <1>1, <1>2, <1>3, <1>4, <2>2 DEF ConfigInv, Agreed
<1>5. CASE audio_config' # << >>
  <2>1. audio_config'[Len(audio_config')] = audio_config[Len(audio_config)]
    BY <1>1, <1>5
  <2> QED BY <1>1, <1>2, <1>3, <1>5, <2>1 DEF ConfigInv, Agreed
<1> QED BY <1>4, <1>5

LEMMA ApplySettled == ConfigInv /\ ApplyConfig => ConfigInv'
<1> SUFFICES ASSUME ConfigInv, ApplyConfig PROVE ConfigInv'
  OBVIOUS
<1>1. /\ viewer = "set_config" /\ viewer' = "configs" /\ backend' = held /\ held' = NoConfig
      /\ audio_buffer' = SetConfig(audio_buffer, held) /\ audio_config' = audio_config
      /\ bus' = bus /\ guest' = guest
  BY DEF ApplyConfig, Goes, sim_vars
<1>2. held \in Settings /\ held # NoConfig
  BY <1>1, SettingsValid DEF ConfigInv
<1>3. DOMAIN audio_buffer' = {"chunks", "config"} /\ audio_buffer'.config = held
  BY <1>1, PushKeeps DEF ConfigInv
<1> QED BY <1>1, <1>2, <1>3 DEF ConfigInv, Agreed

LEMMA ViewerSettled ==
  ASSUME ConfigInv, \/ HandleEvents \/ NoMoreConfigs \/ PollRuntimeEvents \/ UpdateVideo \/ EndStep
                    \/ PollConsole \/ \E count \in Pulls : PullSamples(count)
  PROVE  ConfigInv'
<1>1. /\ viewer = "set_config" <=> viewer' = "set_config"
      /\ held' = held /\ backend' = backend /\ audio_config' = audio_config /\ bus' = bus /\ guest' = guest
  BY DEF HandleEvents, NoMoreConfigs, PollRuntimeEvents, UpdateVideo, EndStep, PollConsole, PullSamples,
         Goes, sim_vars
<1>2. DOMAIN audio_buffer' = {"chunks", "config"} /\ audio_buffer'.config = audio_buffer.config
  <2>1. audio_buffer' = audio_buffer \/ \E chunks : audio_buffer' = [audio_buffer EXCEPT !.chunks = chunks]
    <3>1. ASSUME NEW count \in Pulls, PullSamples(count)
          PROVE  audio_buffer' = [audio_buffer EXCEPT !.chunks = AfterPull(audio_buffer.chunks, count)]
      BY <3>1 DEF PullSamples
    <3> QED BY <3>1 DEF HandleEvents, NoMoreConfigs, PollRuntimeEvents, UpdateVideo, EndStep, PollConsole
  <2> QED BY <2>1, PushKeeps DEF ConfigInv
<1> QED BY <1>1, <1>2 DEF ConfigInv, Agreed

LEMMA StepSettled == ConfigInv /\ [Next]_vars => ConfigInv'
<1>1. ConfigInv /\ UNCHANGED vars => ConfigInv'
  BY DEF ConfigInv, Agreed, vars
<1> QED BY <1>1, AccessSettled, TickSettled, ReloadSettled, TakeSettled, ApplySettled, ViewerSettled
        DEF Next, ViewerStep

\* Two threads set the configuration of the shared buffer (shared_buffers.rs): the runtime's, in the
\* callback of the audio device (audio.rs), and the viewer's, when it applies what that callback has
\* sent it (viewer.rs).  Whenever nothing is left to apply, the device, the buffer and the backend
\* agree, for every program, buffer and interleaving, and after the user has loaded it again.
THEOREM ConfigSettled == Spec => []ConfigSettles
<1>1. ConfigInv => ConfigSettles
  BY DEF ConfigInv, Agreed, ConfigSettles
<1> QED BY <1>1, InitSettled, StepSettled, PTL DEF Spec

=============================================================================
