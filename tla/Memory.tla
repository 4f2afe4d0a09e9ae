------------------------------- MODULE Memory -------------------------------
(***************************************************************************)
(* The memory behind the Rust SystemBus: bus-shared/src/memory.rs, the     *)
(* SystemContext through which devices reach it (bus_device.rs), and the   *)
(* address map of riscv_shared/src/bus.rs.                                 *)
(*                                                                         *)
(* A byte is a digit below BYTE and a word four of them, so an address     *)
(* keeps its leading hexadecimal digit, which selects the device, and as   *)
(* many of the others as BYTE allows.                                      *)
(***************************************************************************)
EXTENDS Integers, Sequences

CONSTANT BYTE      \* values of a byte: 256 in the code

ASSUME MemoryAssumption == BYTE \in Nat /\ BYTE >= 4

WORD == (BYTE * BYTE) * (BYTE * BYTE)

Base(digit) == digit * (WORD \div 16)

DRAM_BASE == Base(8)
DRAM_END == Base(9) - 1
VIDEO_BASE == Base(9)
AUDIO_BASE == Base(10)
FIFO_BASE == Base(11)
DMA_BASE == Base(12)
SIM_CONTROL_BASE == Base(15)

IsRtlPeripheralAddr(addr) == addr < Base(8)

Byte == 0 .. BYTE - 1

\* The bytes of a value, the lowest first, and back.
Digit(value, i) == (value \div BYTE ^ i) % BYTE

ToBytes(value, size) == [i \in 1 .. size |-> Digit(value, i - 1)]

FromBytes(bytes) ==
  LET value[i \in 1 .. Len(bytes) + 1] ==
        IF i > Len(bytes) THEN 0 ELSE bytes[i] + BYTE * value[i + 1]
  IN  value[1]

\* Memory::new and reset.
Cleared == [addr \in DRAM_BASE .. DRAM_END |-> 0]

MemRead(mem, addr, size) == FromBytes([i \in 1 .. size |-> mem[addr + i - 1]])

MemWrite(mem, addr, size, value) ==
  [a \in DOMAIN mem |-> IF a \in addr .. addr + size - 1 THEN Digit(value, a - addr) ELSE mem[a]]

\* addr.checked_add(size - 1) fails beyond the last word.
IsValidDramRange(addr, size) ==
  /\ size # 0 /\ addr + size - 1 < WORD
  /\ {addr, addr + size - 1} \subseteq DRAM_BASE .. DRAM_END

\* Outside the DRAM a read returns zero and a write is dropped.
CtxRead(mem, addr, size) == IF IsValidDramRange(addr, size) THEN MemRead(mem, addr, size) ELSE 0

CtxWrite(mem, addr, size, value) ==
  IF IsValidDramRange(addr, size) THEN MemWrite(mem, addr, size, value) ELSE mem

\* Wrong variant: a byte at a time.
OptimalReadSize_Byte(addr, remaining) == 1

\* The largest aligned access that does not go past what is left.
OptimalReadSize(addr, remaining) ==
  CHOOSE size \in {1, 2, 4} :
    /\ size <= remaining /\ addr % size = 0
    /\ \A other \in {1, 2, 4} : other <= remaining /\ addr % other = 0 => other <= size

ReadMemoryChunk(mem, addr, remaining) ==
  LET size == OptimalReadSize(addr, remaining)
  IN  ToBytes(CtxRead(mem, addr, size), size)
=============================================================================
