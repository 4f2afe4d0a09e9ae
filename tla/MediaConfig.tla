----------------------------- MODULE MediaConfig -----------------------------
(***************************************************************************)
(* The configuration registers of the audio and the video device, as both  *)
(* ends read and write them: riscv_shared/src/audio.rs and video.rs.       *)
(***************************************************************************)
EXTENDS FifoDevice

CONSTANTS COUNT_FIELD,   \* values of the sample_count field: 65536 in the code
          SIZE_FIELD     \* values of the width and height fields: 4096

ASSUME FieldAssumption == COUNT_FIELD \in Nat \ {0} /\ SIZE_FIELD \in Nat \ {0}

\* What from_register returns for a field that has no meaning.
Invalid == [valid |-> FALSE]

\* 48000, 44100 and 22050 Hz; the fourth value of the field is none.
Rates == 0 .. 2
Channels == 1 .. 2

AudioConfig == [valid : {TRUE}, rate : Rates, channels : Channels, count : 1 .. COUNT_FIELD]

AudioFromRegister(value) ==
  IF value % 4 \notin Rates THEN Invalid
  ELSE [valid |-> TRUE, rate |-> value % 4, channels |-> ((value \div 4) % 2) + 1,
        count |-> ((value \div 8) % COUNT_FIELD) + 1]

\* A count out of range is written as one sample.
AudioToRegister(c) ==
  c.rate + 4 * (c.channels - 1) + 8 * (IF c.count \in 1 .. COUNT_FIELD THEN c.count - 1 ELSE 0)

BufferBytes(c) == c.count * 2 * c.channels

\* Rgba8, Rgb8, Rgb565 and R8.
Formats == 0 .. 3
BytesPerPixel(format) == <<4, 3, 2, 1>>[format + 1]

VideoConfig == [valid : {TRUE}, width : 1 .. SIZE_FIELD, height : 1 .. SIZE_FIELD, format : Formats]

VideoFromRegister(value) ==
  IF value \div (SIZE_FIELD * SIZE_FIELD) \notin Formats THEN Invalid
  ELSE [valid |-> TRUE, width |-> (value % SIZE_FIELD) + 1,
        height |-> ((value \div SIZE_FIELD) % SIZE_FIELD) + 1,
        format |-> value \div (SIZE_FIELD * SIZE_FIELD)]

VideoToRegister(c) ==
  c.width - 1 + SIZE_FIELD * (c.height - 1 + SIZE_FIELD * c.format)

TotalBytes(c) == c.width * c.height * BytesPerPixel(c.format)
=============================================================================
