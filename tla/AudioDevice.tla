----------------------------- MODULE AudioDevice -----------------------------
(***************************************************************************)
(* bus-shared/src/audio.rs: reads a buffer of samples out of memory and    *)
(* hands it to a callback, and tells the program when to offer no more.    *)
(*                                                                         *)
(* Time is the age of the window, which no longer matters once it is a     *)
(* whole window: no window at all and one that is over are the same to     *)
(* every test the device makes.                                            *)
(***************************************************************************)
EXTENDS MediaConfig

CONSTANTS WINDOW,       \* a second, in steps of the clock
          SampleLimit   \* per rate, the samples of one window: rate * buffer_ahead_multiplier

ASSUME WindowAssumption == WINDOW \in Nat \ {0} /\ SampleLimit \in [Rates -> Nat \ {0}]

NoDma == [remaining |-> 0, addr |-> 0, data |-> << >>, config |-> 0]

AudioReset == [addr |-> 0, config |-> 0, dma |-> NoDma, samples |-> 0, window |-> WINDOW]

IsDmaActive(d) == d.dma.remaining # 0

\* Wrong variant: the samples of a window that is over still count.
IsSampleBufferReady_Sticky(d) ==
  LET config == AudioFromRegister(d.config)
  IN  config.valid => d.samples < SampleLimit[config.rate]

IsSampleBufferReady(d) ==
  LET config == AudioFromRegister(d.config)
  IN  config.valid => d.window = WINDOW \/ d.samples < SampleLimit[config.rate]

\* Address and configuration are captured here.
StartDma(d) ==
  LET config == AudioFromRegister(d.config)
  IN  IF IsDmaActive(d) \/ ~config.valid THEN d
      ELSE [d EXCEPT !.dma = [remaining |-> BufferBytes(config), addr |-> d.addr,
                              data |-> << >>, config |-> d.config]]

\* Pairs of bytes become samples.
Samples(data) == [i \in 1 .. Len(data) \div 2 |-> FromBytes(SubSeq(data, 2 * i - 1, 2 * i))]

\* The first buffer after a window is over starts the next one.
AfterSamples(d, count) ==
  IF d.window = WINDOW THEN [d EXCEPT !.window = 0, !.samples = count]
  ELSE [d EXCEPT !.samples = @ + count]

\* One chunk: the device, and the samples for the callback if that was the last.
DmaChunk(d, mem) ==
  LET chunk == ReadMemoryChunk(mem, d.dma.addr, d.dma.remaining)
      data == d.dma.data \o chunk
      config == AudioFromRegister(d.dma.config)
  IN  IF Len(chunk) = d.dma.remaining
      THEN <<AfterSamples([d EXCEPT !.dma = NoDma], config.count), <<Samples(data)>> >>
      ELSE <<[d EXCEPT !.dma = [remaining |-> @.remaining - Len(chunk),
                                addr |-> (@.addr + Len(chunk)) % WORD,
                                data |-> data, config |-> @.config]], << >> >>

AudioTick(d, mem) == IF IsDmaActive(d) THEN DmaChunk(d, mem) ELSE <<d, << >> >>

AudioElapse(d) == [d EXCEPT !.window = IF @ = WINDOW THEN @ ELSE @ + 1]

AudioRead(d, offset, size) ==
  IF size # 4 THEN Error
  ELSE CASE offset = 0 -> d.addr
         [] offset = 4 -> d.config
         [] offset = 8 -> (IF IsDmaActive(d) THEN 0 ELSE 1) + (IF IsSampleBufferReady(d) THEN 2 ELSE 0)
         [] OTHER -> Error

\* Every write of the configuration starts a stream of its own.
HandleConfigWrite(d, value) == [d EXCEPT !.config = value, !.samples = 0, !.window = WINDOW]

AudioWrite(d, offset, size, value) ==
  IF size # 4 THEN d
  ELSE CASE offset = 0 -> [d EXCEPT !.addr = value]
         [] offset = 4 -> HandleConfigWrite(d, value)
         [] offset = 12 -> StartDma(d)
         [] OTHER -> d

\* The configuration callback: whenever the value written is valid.
ConfigCall(offset, size, value) ==
  IF offset = 4 /\ size = 4 /\ AudioFromRegister(value).valid THEN <<value>> ELSE << >>
=============================================================================
