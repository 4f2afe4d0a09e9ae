--------------------------- MODULE AudioPeripheral ---------------------------
(***************************************************************************)
(* rtl/common/peripherals/audiosys_peripheral.sv on its audio clock, with  *)
(* the sample queue (SyncFifo) and the word timing of i2s_serializer.sv.   *)
(*                                                                         *)
(* A queued word is a stereo sample; what goes out for one channel is one  *)
(* half of it, silence, or the tone.  i2s_lrclk still shows the channel    *)
(* that just ended when the next one is loaded: high means that the left   *)
(* one is loaded, which is where a frame begins.  The tone generator is an *)
(* input: starting, playing, or playing and at a zero crossing.            *)
(***************************************************************************)
EXTENDS SyncFifo

CONSTANT SAMPLE_WIDTH   \* OUTPUT_SAMPLE_WIDTH: bit clocks a channel takes

ASSUME WidthAssumption == SAMPLE_WIDTH \in Nat \ {0}

VARIABLES audio,  \* mode registers and whether a right half is kept; it is the one
                  \* of the word last taken, as fifo_right_hold is loaded with it
          i2s     \* reload_pending, bit_index, next_channel, i2s_lrclk, and of
                  \* the channel under way what was loaded and in which mode

audioVars == <<mem, ram, wr_ptr, rd_ptr, count, out, load, taken, audio, i2s>>

Modes == {"off", "tone", "fifo"}
Left(d) == [part |-> "left", of |-> d]
Right(d) == [part |-> "right", of |-> d]
Silence == [part |-> "silence"]
Tone == [part |-> "tone"]

AudioReset == [req |-> "off", active |-> "off", frame_valid |-> FALSE]
I2sReset == [reload |-> TRUE, bit |-> 0, next |-> FALSE, lrclk |-> FALSE,
             word |-> Silence, mode |-> "off"]

(***************************************************************************)
(* What an edge sees.  acc is the register access taken at this edge: a    *)
(* write of MODE or FIFO_SAMPLE, a read of FIFO_SPACE, or one that changes *)
(* nothing (another register, another size).                               *)
(***************************************************************************)
Quiet == [reg |-> "none"]
WriteMode(m) == [reg |-> "mode", value |-> m]
WriteSample(d) == [reg |-> "sample", value |-> d]
ReadSpace == [reg |-> "space"]

FrameBoundary == i2s.reload /\ i2s.lrclk

\* Wrong variant: one more than the queue can take.
Space_OneMore == DEPTH + 1 - count

Space == DEPTH - count

LowWater == audio.active = "fifo" /\ count < DEPTH \div 2

\* A sample is taken in as soon as playback is asked for, and dropped otherwise.
FifoWrite(acc) == acc.reg = "sample" /\ audio.req = "fifo"
FifoRead == audio.active = "fifo" /\ FrameBoundary

\* What the channel loaded at this edge gets.
SampleData(tone) ==
  CASE audio.active = "off"  -> Silence
    [] audio.active = "tone" -> IF tone # "starting" THEN Tone ELSE Silence
    [] audio.active = "fifo" /\ i2s.lrclk  -> IF out.valid THEN Left(out.data) ELSE Silence
    [] audio.active = "fifo" /\ ~i2s.lrclk -> IF audio.frame_valid THEN Right(taken) ELSE Silence

(***************************************************************************)
(* The registers after an edge                                             *)
(***************************************************************************)
Sanitize(m) == IF m \in Modes THEN m ELSE "off"

\* Between tone and queue a switch also waits for the tone to cross zero.
SwitchNow(tone) ==
  FrameBoundary /\ ({audio.active, audio.req} = {"tone", "fifo"} => tone = "crossing")

\* Wrong variant: the half kept survives the end of the playback.
FrameValidNext_Kept ==
  IF audio.active = "fifo" /\ FrameBoundary THEN out.valid ELSE audio.frame_valid

FrameValidNext ==
  audio.active = "fifo" /\ (IF FrameBoundary THEN out.valid ELSE audio.frame_valid)

AudioNext(acc, tone) ==
  [audio EXCEPT
    !.req = IF acc.reg = "mode" THEN Sanitize(acc.value) ELSE @,
    !.active = IF SwitchNow(tone) THEN audio.req ELSE @,
    !.frame_valid = FrameValidNext]

I2sNext(tone) ==
  IF i2s.reload
  THEN [i2s EXCEPT !.reload = FALSE, !.bit = 0, !.lrclk = i2s.next,
                   !.word = SampleData(tone), !.mode = audio.active]
  ELSE IF i2s.bit = SAMPLE_WIDTH - 1 THEN [i2s EXCEPT !.reload = TRUE, !.next = ~@]
       ELSE [i2s EXCEPT !.bit = @ + 1]

\* The tone generator matters only while its mode is active or asked for.
ToneInput == IF "tone" \in {audio.active, audio.req} THEN {"starting", "playing", "crossing"}
             ELSE {"starting"}

AnyData == CHOOSE d \in Data : TRUE

AudioEdge(acc) ==
  /\ Edge(FifoWrite(acc), IF acc.reg = "sample" THEN acc.value ELSE AnyData, FifoRead)
  /\ \E tone \in ToneInput :
       /\ audio' = AudioNext(acc, tone)
       /\ i2s' = I2sNext(tone)

AudioResetEdge ==
  /\ Reset(FALSE, AnyData, FifoRead)
  /\ audio' = AudioReset
  /\ i2s' = I2sReset

AudioInit == /\ Init
             /\ audio = AudioReset
             /\ i2s = I2sReset

(***************************************************************************)
(* Properties                                                              *)
(***************************************************************************)
AudioTypeOK ==
  /\ audio \in [req : Modes, active : Modes, frame_valid : BOOLEAN]
  /\ i2s.reload \in BOOLEAN /\ i2s.bit \in 0 .. SAMPLE_WIDTH - 1
  /\ i2s.next \in BOOLEAN /\ i2s.lrclk \in BOOLEAN /\ i2s.mode \in Modes

\* When the right channel is loaded from the queue, the left one before it was
\* the other half of the same sample, or both are silent; and the first right
\* channel after a switch is silent, never a half kept from an earlier playback.
\* (audiosys_peripheral.sv:196-198: "Suppress stale right-channel hold data
\* until a valid stereo frame has actually been popped from the FIFO.")
StereoPaired ==
  i2s.reload /\ ~i2s.lrclk /\ audio.active = "fifo" =>
    LET right == SampleData("starting")
    IN  IF i2s.mode = "fifo"
        THEN \/ i2s.word = Silence /\ right = Silence
             \/ \E d \in Data : i2s.word = Left(d) /\ right = Right(d)
        ELSE right = Silence
=============================================================================
