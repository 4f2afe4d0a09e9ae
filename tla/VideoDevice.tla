----------------------------- MODULE VideoDevice -----------------------------
(***************************************************************************)
(* bus-shared/src/video.rs: reads a frame out of memory, hands it to a     *)
(* callback, and paces the program that draws the next one.                *)
(*                                                                         *)
(* Time is the age of the last frame, up to the frame time.                *)
(***************************************************************************)
EXTENDS AudioDevice

CONSTANT FRAME_TIME   \* 1000000 / target_fps, in steps of the clock

ASSUME FrameTimeAssumption == FRAME_TIME \in Nat

NoPresent == [remaining |-> 0, addr |-> 0, data |-> << >>, config |-> 0]

VideoReset == [addr |-> 0, config |-> 0, present |-> NoPresent, frame_age |-> FRAME_TIME]

IsPresentActive(d) == d.present.remaining # 0

\* No frame yet, or the last one is old enough.
IsFrameReady(d) == d.frame_age = FRAME_TIME

StartPresent(d) ==
  LET config == VideoFromRegister(d.config)
  IN  IF IsPresentActive(d) \/ ~config.valid THEN d
      ELSE [d EXCEPT !.present = [remaining |-> TotalBytes(config), addr |-> d.addr,
                                  data |-> << >>, config |-> d.config]]

\* One chunk: the device, and the frame for the callback if that was the last.
PresentChunk(d, mem) ==
  LET chunk == ReadMemoryChunk(mem, d.present.addr, d.present.remaining)
      data == d.present.data \o chunk
  IN  IF Len(chunk) = d.present.remaining
      THEN <<[d EXCEPT !.present = NoPresent, !.frame_age = 0],
             <<[data |-> data, config |-> d.present.config]>> >>
      ELSE <<[d EXCEPT !.present = [remaining |-> @.remaining - Len(chunk),
                                    addr |-> (@.addr + Len(chunk)) % WORD,
                                    data |-> data, config |-> @.config]], << >> >>

VideoTick(d, mem) == IF IsPresentActive(d) THEN PresentChunk(d, mem) ELSE <<d, << >> >>

VideoElapse(d) == [d EXCEPT !.frame_age = IF @ = FRAME_TIME THEN @ ELSE @ + 1]

VideoRead(d, offset, size) ==
  IF size # 4 THEN Error
  ELSE CASE offset = 0 -> d.addr
         [] offset = 4 -> d.config
         [] offset = 8 -> (IF IsFrameReady(d) THEN 1 ELSE 0) + (IF IsPresentActive(d) THEN 0 ELSE 2)
         [] OTHER -> Error

VideoWrite(d, offset, size, value) ==
  IF size # 4 THEN d
  ELSE CASE offset = 0 -> [d EXCEPT !.addr = value]
         [] offset = 4 -> [d EXCEPT !.config = value]
         [] offset = 12 -> StartPresent(d)
         [] OTHER -> d
=============================================================================
