----------------------------- MODULE FifoDevice -----------------------------
(***************************************************************************)
(* bus-shared/src/fifo.rs and sim_control.rs: the byte queue from the host *)
(* to the program, whose other direction is a callback, and the register   *)
(* by which the program says that it is done.                              *)
(***************************************************************************)
EXTENDS DmaDevice, SequencesExt

\* push_string_to_fifo_rx: a string whose length is a multiple of four gets a
\* zero after it.
PushString(queue, s) == queue \o s \o (IF Len(s) % 4 = 0 THEN <<0>> ELSE << >>)

\* STATUS, a word: TX_READY always, RX_VALID if something is queued.
ReadStatus(queue) == 2 + (IF queue = << >> THEN 0 ELSE 1)

\* DATA is a byte, zero when nothing is queued; everything else is refused.
FifoRead(queue, offset, size) ==
  CASE offset = 0 /\ size = 1 -> IF queue = << >> THEN 0 ELSE Head(queue)
    [] offset = 4 /\ size = 4 -> ReadStatus(queue)
    [] OTHER -> Error

\* Wrong variant: looking at DATA leaves the byte where it is.
AfterFifoRead_Peek(queue, offset, size) == queue

\* What a read leaves in the queue.
AfterFifoRead(queue, offset, size) ==
  IF offset = 0 /\ size = 1 /\ queue # << >> THEN Tail(queue) ELSE queue

\* Only a byte written to DATA reaches the callback.
FifoForwards(offset, size) == offset = 0 /\ size = 1

\* TOHOST: the value written stays until it is acknowledged.
NoTohost == {}
SimControlWrite(tohost, offset, size, value) ==
  IF offset = 0 /\ size = 4 THEN {value} ELSE tohost
=============================================================================
