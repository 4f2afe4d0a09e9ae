---------------------------- MODULE GuestPrograms ----------------------------
(***************************************************************************)
(* The programs of rust-test-program that drive the Rust devices, and the  *)
(* library of riscv_shared they are written with.                          *)
(*                                                                         *)
(* A program is what it does to the bus, an access at a time.  It is given *)
(* round by round, a round being one turn of its main loop: round 0 is     *)
(* what comes before the loop and the round after the last one what comes  *)
(* after it.  A step is an access and what follows it: the next step, the  *)
(* same one again, the next round, or the end of the program.              *)
(***************************************************************************)
EXTENDS SystemBus

CONSTANTS COPY_SIZE,       \* TEST_SIZE of test_dma_copy
          FRAMES,          \* that test_video_pattern presents
          VIDEO_SHAPE,     \* width, height and format of the frames, per program
          TOTAL_SAMPLES,   \* of test_audio_pattern
          BUFFER_SAMPLES,  \* its BUFFER_SIZE_SAMPLES, and of the loops
          SINE_TABLE,      \* the first quarter of the wave
          MESSAGE          \* what println_test prints

ASSUME SineAssumption == Len(SINE_TABLE) > 0

SUCCESS_CODE == 42
FAILURE_CODE == 1
PANIC_CODE == 57005 % WORD

\* A step: an access; the bit a read waits for or the value it checks; and
\* where to go if that is not there.
Step(write, addr, size, value) ==
  [write |-> write, addr |-> addr, size |-> size, value |-> value, test |-> "none", else |-> "next"]

Write(addr, size, value) == Step(TRUE, addr, size, value)
WaitFor(addr, bit) == [Step(FALSE, addr, 4, bit) EXCEPT !.test = "bit", !.else = "same"]
WaitForNot(addr, bit) == [Step(FALSE, addr, 4, bit) EXCEPT !.test = "not_bit", !.else = "same"]
Unless(addr, bit, else) == [Step(FALSE, addr, 4, bit) EXCEPT !.test = "bit", !.else = else]
Expect(addr, size, value) == [Step(FALSE, addr, size, value) EXCEPT !.test = "equal", !.else = "failure"]

\* Read a byte and keep it; a zero ends the program.  Write the byte kept.
Take(addr) == [Step(FALSE, addr, 1, 0) EXCEPT !.test = "nonzero", !.else = "success"]
Give(addr) == [Step(TRUE, addr, 1, 0) EXCEPT !.test = "kept"]

Steps(count, step(_)) == [i \in 1 .. count |-> step(i - 1)]

(***************************************************************************)
(* riscv_shared                                                            *)
(***************************************************************************)
FIFO_STATUS == FIFO_BASE + 4
RX_VALID == 0    \* bit numbers
TX_READY == 1

\* FifoUwrite::write_str
WriteStr(bytes) ==
  FlattenSeq([i \in DOMAIN bytes |-> <<WaitFor(FIFO_STATUS, TX_READY), Write(FIFO_BASE, 1, bytes[i])>>])

\* dma::start_transfer and wait_for_completion
DmaTransfer(src, dst, size) ==
  <<Write(DMA_BASE, 4, src), Write(DMA_BASE + 4, 4, dst), Write(DMA_BASE + 8, 4, size),
    Write(DMA_BASE + 16, 4, 1)>>
WaitForCompletion == <<WaitForNot(DMA_BASE + 12, 0)>>

VIDEO_STATUS == VIDEO_BASE + 8
FRAME_READY == 0
PRESENT_READY == 1
WaitForFrameReady == <<WaitFor(VIDEO_STATUS, FRAME_READY)>>
WaitForPresentReady == <<WaitFor(VIDEO_STATUS, PRESENT_READY)>>
TriggerPresent == <<Write(VIDEO_BASE + 12, 4, 0)>>

\* write_pixel_rgba8, _rgb8 and _r8: the bytes of a pixel, in as few accesses
\* as the format has aligned parts.  No program draws in rgb565.
WritePixel(addr, format, bytes) ==
  CASE format = 0 -> <<Write(addr, 4, FromBytes(bytes))>>
    [] format = 1 -> <<Write(addr, 2, FromBytes(SubSeq(bytes, 1, 2))), Write(addr + 2, 1, bytes[3])>>
    [] format = 3 -> <<Write(addr, 1, bytes[1])>>

AUDIO_STATUS == AUDIO_BASE + 8
DMA_READY == 0
SAMPLE_BUFFER_READY == 1
WaitForDmaReady == <<WaitFor(AUDIO_STATUS, DMA_READY)>>
WaitForSampleBuffer == <<WaitFor(AUDIO_STATUS, SAMPLE_BUFFER_READY)>>
TriggerDma == <<Write(AUDIO_BASE + 12, 4, 0)>>

\* The table rises through the first quarter of the wave; the second is its
\* mirror image and the other half the first, negated.
GenerateSineSample(index, frequency_div) ==
  LET quarter == Len(SINE_TABLE)
      half == BYTE * BYTE
      phase == (index \div frequency_div) % (4 * quarter)
      at == phase % quarter
  IN  CASE phase \div quarter = 0 -> SINE_TABLE[at + 1]
        [] phase \div quarter = 1 -> SINE_TABLE[quarter - at]
        [] phase \div quarter = 2 -> (half - SINE_TABLE[at + 1]) % half
        [] phase \div quarter = 3 -> (half - SINE_TABLE[quarter - at]) % half

\* Left and right in one word.
StereoSample(left, right) == left + BYTE * BYTE * right
WriteStereoSample(addr, left, right) == <<Write(addr, 4, StereoSample(left, right))>>

(***************************************************************************)
(* The programs.  Buffers lie at fixed places in the memory.               *)
(***************************************************************************)
HALF == (DRAM_END + 1 - DRAM_BASE) \div 2
FIRST_BUFFER == DRAM_BASE
SECOND_BUFFER == DRAM_BASE + HALF

\* Each has room for what the programs copy, draw and play.
ASSUME BuffersAssumption ==
  /\ {FRAMES, TOTAL_SAMPLES, BUFFER_SAMPLES} \subseteq Nat \ {0} /\ 4 * BUFFER_SAMPLES <= HALF
  /\ COPY_SIZE \in 0 .. HALF /\ MESSAGE \in Seq(Byte)
  /\ \A shape \in {VIDEO_SHAPE.pattern, VIDEO_SHAPE.loop} :
       /\ {shape.width, shape.height} \subseteq Nat \ {0} /\ shape.format \in {0, 1, 3}
       /\ TotalBytes(shape) <= HALF

\* test_dma_copy
DmaCopy ==
  LET Pattern(i) == i % BYTE
      Fill(i) == Write(FIRST_BUFFER + i, 1, Pattern(i))
      Clear(i) == Write(SECOND_BUFFER + i, 1, 0)
      Verify(i) == Expect(SECOND_BUFFER + i, 1, Pattern(i))
  IN  Steps(COPY_SIZE, Fill) \o Steps(COPY_SIZE, Clear)
      \o DmaTransfer(FIRST_BUFFER, SECOND_BUFFER, COPY_SIZE) \o WaitForCompletion
      \o Steps(COPY_SIZE, Verify)

\* hello_world: fifo_read_byte fails on an empty queue, fifo_write_byte on a
\* queue that cannot take a byte.
Echo == <<Unless(FIFO_STATUS, RX_VALID, "success"), Take(FIFO_BASE),
          Unless(FIFO_STATUS, TX_READY, "panic"), Give(FIFO_BASE)>>

\* The pixels that the programs draw depend on the frame and the place.
Pixel(frame, i) == (frame + i) % BYTE

Rendering(shape, frame) == [i \in 1 .. TotalBytes(shape) |-> Pixel(frame, i)]

Render(shape, frame) ==
  LET depth == BytesPerPixel(shape.format)
      At(n) == WritePixel(FIRST_BUFFER + n * depth, shape.format,
                          SubSeq(Rendering(shape, frame), n * depth + 1, (n + 1) * depth))
  IN  FlattenSeq(Steps(shape.width * shape.height, At))

ConfigureVideo(shape) ==
  <<Write(VIDEO_BASE, 4, FIRST_BUFFER), Write(VIDEO_BASE + 4, 4, VideoToRegister(shape))>>

PresentFrame(shape, frame) ==
  WaitForFrameReady \o Render(shape, frame) \o WaitForPresentReady \o TriggerPresent

\* The samples at and after index.
Wave(index, count) ==
  [i \in 1 .. 2 * count |->
     GenerateSineSample(index + (i - 1) \div 2 + (IF i % 2 = 0 THEN 1 ELSE 0), 1)]

WriteSamples(index, count) ==
  LET At(i) == WriteStereoSample(SECOND_BUFFER + 4 * i, Wave(index, count)[2 * i + 1],
                                 Wave(index, count)[2 * i + 2])
  IN  FlattenSeq(Steps(count, At))

Stereo(count) == [valid |-> TRUE, rate |-> 0, channels |-> 2, count |-> count]

ConfigureAudio(count) ==
  <<Write(AUDIO_BASE, 4, SECOND_BUFFER), Write(AUDIO_BASE + 4, 4, AudioToRegister(Stereo(count)))>>

\* test_audio_pattern: the batches, and what a batch does.
Batches == (TOTAL_SAMPLES + BUFFER_SAMPLES - 1) \div BUFFER_SAMPLES
BatchStart(batch) == (batch - 1) * BUFFER_SAMPLES
BatchSize(batch) ==
  LET left == TOTAL_SAMPLES - BatchStart(batch)
  IN  IF left > BUFFER_SAMPLES THEN BUFFER_SAMPLES ELSE left

AudioBatch(batch) ==
  WriteSamples(BatchStart(batch), BatchSize(batch)) \o ConfigureAudio(BatchSize(batch))
  \o WaitForDmaReady \o WaitForSampleBuffer \o TriggerDma

\* test_sim_view offers the buffer only if both flags are up at the moment.
PlayAgain ==
  <<Unless(AUDIO_STATUS, DMA_READY, "round"), Unless(AUDIO_STATUS, SAMPLE_BUFFER_READY, "round")>>
  \o TriggerDma

Endless == {"video_loop", "audio_loop", "sim_view"}
Programs == Endless \cup {"video_pattern", "audio_pattern", "dma_copy", "println", "echo"}

\* The turns of a loop that are told apart: an endless one alternates between
\* two frames.
Rounds(program) ==
  CASE program = "video_pattern" -> FRAMES
    [] program = "audio_pattern" -> Batches
    [] program \in Endless -> 2
    [] program = "echo" -> 1
    [] OTHER -> 0

Prologue(program) ==
  CASE program = "video_pattern" -> ConfigureVideo(VIDEO_SHAPE.pattern)
    [] program = "video_loop" -> ConfigureVideo(VIDEO_SHAPE.loop)
    [] program = "audio_pattern" -> ConfigureAudio(BUFFER_SAMPLES)
    [] program = "audio_loop" -> WriteSamples(0, BUFFER_SAMPLES) \o ConfigureAudio(BUFFER_SAMPLES)
    [] program = "sim_view" -> ConfigureVideo(VIDEO_SHAPE.loop)
                               \o WriteSamples(0, BUFFER_SAMPLES) \o ConfigureAudio(BUFFER_SAMPLES)
    [] program = "dma_copy" -> DmaCopy
    [] program = "println" -> WriteStr(MESSAGE)
    [] program = "echo" -> << >>

Turn(program, round) ==
  CASE program = "video_pattern" -> PresentFrame(VIDEO_SHAPE.pattern, round)
    [] program = "video_loop" -> PresentFrame(VIDEO_SHAPE.loop, round)
    [] program = "audio_pattern" -> AudioBatch(round)
    [] program = "audio_loop" -> WaitForDmaReady \o WaitForSampleBuffer \o TriggerDma
    [] program = "sim_view" -> PresentFrame(VIDEO_SHAPE.loop, round) \o PlayAgain
    [] program = "echo" -> Echo

Epilogue(program) == CASE program = "video_pattern" -> WaitForPresentReady
                       [] program = "audio_pattern" -> WaitForDmaReady
                       [] OTHER -> << >>

\* write_tohost; the write to the HALT register that follows it stays on the chip.
WriteTohost(code) == <<Write(SIM_CONTROL_BASE, 4, code)>>

\* Every program, round by round.
Listing ==
  [program \in Programs |->
     [round \in 0 .. Rounds(program) + 1 |->
        IF round = 0 THEN Prologue(program)
        ELSE IF round <= Rounds(program) THEN Turn(program, round) ELSE Epilogue(program)]]

(***************************************************************************)
(* A program that runs: the round, the place in it, the byte it keeps, and *)
(* the code it exits with, 0 as long as it has not.                        *)
(***************************************************************************)
Exit(guest, code) == [guest EXCEPT !.code = code, !.pc = 1]

\* The first round from this one on that has something in it.
Enter(guest, round) ==
  LET left == {r \in DOMAIN Listing[guest.program] :
                 r >= round /\ Listing[guest.program][r] # << >>}
  IN  IF left = {} THEN Exit(guest, SUCCESS_CODE)
      ELSE [guest EXCEPT !.round = Min(left), !.pc = 1]

NextRound(guest) ==
  IF guest.program \in Endless \cup {"echo"} /\ guest.round = Rounds(guest.program)
  THEN Enter(guest, 1) ELSE Enter(guest, guest.round + 1)

Boot(program) == Enter([program |-> program, round |-> 0, pc |-> 1, kept |-> 0, code |-> 0], 0)

Section(guest) ==
  IF guest.code = 0 THEN Listing[guest.program][guest.round] ELSE WriteTohost(guest.code)

Off(guest) == guest.pc > Len(Section(guest))

\* What the program does next.
Request(guest) ==
  LET step == Section(guest)[guest.pc]
  IN  [write |-> step.write, addr |-> step.addr, size |-> step.size,
       value |-> IF step.test = "kept" THEN guest.kept ELSE step.value]

Passes(step, answer) ==
  CASE step.test = "bit" -> (answer \div 2 ^ step.value) % 2 = 1
    [] step.test = "not_bit" -> (answer \div 2 ^ step.value) % 2 = 0
    [] step.test = "equal" -> answer = step.value
    [] step.test = "nonzero" -> answer # 0
    [] OTHER -> TRUE

Advance(guest) ==
  IF guest.pc < Len(Section(guest)) \/ guest.code # 0 THEN [guest EXCEPT !.pc = @ + 1]
  ELSE NextRound(guest)

\* The program once its access is answered.
Continue(guest, answer) ==
  LET step == Section(guest)[guest.pc]
      keeping == [guest EXCEPT !.kept = IF step.test = "nonzero" THEN answer ELSE @]
  IN  IF Passes(step, answer) THEN Advance(keeping)
      ELSE CASE step.else = "same" -> guest
             [] step.else = "round" -> NextRound(guest)
             [] step.else = "success" -> Exit(guest, SUCCESS_CODE)
             [] step.else = "failure" -> Exit(guest, FAILURE_CODE)
             [] step.else = "panic" -> Exit(guest, PANIC_CODE)
=============================================================================
