------------------------------ MODULE DmaDevice ------------------------------
(***************************************************************************)
(* bus-shared/src/dma.rs: copies a block of memory, a byte a clock cycle.  *)
(***************************************************************************)
EXTENDS Memory

\* What a device answers instead of a value, whatever the reason.
Error == -1

\* No transfer: a transfer that is active has bytes left.
NoTransfer == [remaining |-> 0, src |-> 0, dst |-> 0]

DmaReset == [src |-> 0, dst |-> 0, size |-> 0, active |-> NoTransfer]

IsBusy(d) == d.active.remaining # 0

\* A dispatch while busy, or of nothing, is ignored.
StartTransfer(d) ==
  IF IsBusy(d) \/ d.size = 0 THEN d
  ELSE [d EXCEPT !.active = [remaining |-> d.size, src |-> d.src, dst |-> d.dst]]

\* The device and the memory after one byte.
TransferOneByte(d, mem) ==
  <<[d EXCEPT !.active = IF @.remaining = 1 THEN NoTransfer
                         ELSE [remaining |-> @.remaining - 1,
                               src |-> (@.src + 1) % WORD, dst |-> (@.dst + 1) % WORD]],
    CtxWrite(mem, d.active.dst, 1, CtxRead(mem, d.active.src, 1))>>

DmaTick(d, mem) == IF IsBusy(d) THEN TransferOneByte(d, mem) ELSE <<d, mem>>

\* STATUS is read-only, DISPATCH write-only, and only words are supported.
DmaRead(d, offset, size) ==
  IF size # 4 THEN Error
  ELSE CASE offset = 0 -> d.src
         [] offset = 4 -> d.dst
         [] offset = 8 -> d.size
         [] offset = 12 -> IF IsBusy(d) THEN 1 ELSE 0
         [] OTHER -> Error

DmaWrite(d, offset, size, value) ==
  IF size # 4 THEN d
  ELSE CASE offset = 0 -> [d EXCEPT !.src = value]
         [] offset = 4 -> [d EXCEPT !.dst = value]
         [] offset = 8 -> [d EXCEPT !.size = value]
         [] offset = 16 -> StartTransfer(d)
         [] OTHER -> d
=============================================================================
