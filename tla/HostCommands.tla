---------------------------- MODULE HostCommands ----------------------------
(***************************************************************************)
(* What the clients of a runtime ask of it: the commands of the shell      *)
(* (fpga-host/src/shell.rs) and the reload of the viewer (sim-view), as    *)
(* sequences of calls to the helpers of device-runtime/src/lib.rs, and the *)
(* helpers as sequences of bus requests.                                   *)
(***************************************************************************)
EXTENDS HostBusHandler

CONSTANTS REGIONS,   \* the memory regions commands name: records [addr, len]
          SEGMENTS   \* loadable segments of an ELF file, each as long as the region

\* Registers of the system controller, all words, below every memory address.
RESET == 0
BOOT == 4
STATUS == 8
RESET_CPU == 1
RESET_SYSTEM == 2
Memory == 12 .. ADDR_END - 1

\* The registers are on the target.
ASSUME RegistersAssumption == RTL_END >= 12

ASSUME RegionsAssumption ==
  SEGMENTS \in Nat \ {0} /\ \A g \in REGIONS : g.addr \in Memory /\ g.len \in 1 .. ADDR_END - g.addr

(***************************************************************************)
(* The calls a command makes, in order; each must succeed for the next.    *)
(* "read" and "write" send a request and do not wait for its response.     *)
(***************************************************************************)
Segments == [i \in 1 .. SEGMENTS |-> "write_region"]
LoadElf == Segments
LoadMem == <<"write_region">>
DumpMem == <<"read_region">>
MemTest == <<"write_region", "read_region">>
Read == <<"send_read">>
Write == <<"send_write">>
ResetCpu == <<"reset_cpu">>
ResetSystem == <<"reset_system">>
BootAt == <<"boot_cpu">>
Reload == ResetCpu \o Segments \o BootAt

\* Connecting may begin with a reset, which the new thread carries out.
ConnectCpu == <<"start_cpu">>
ConnectSystem == <<"start_system">>

Script == [connect_cpu |-> ConnectCpu, connect_system |-> ConnectSystem,
           loadelf |-> LoadElf, loadmem |-> LoadMem, dumpmem |-> DumpMem, memtest |-> MemTest,
           read |-> Read, write |-> Write, reset |-> ResetCpu, hard_reset |-> ResetSystem,
           boot |-> BootAt, reload |-> Reload, disconnect |-> <<"drop">>]

\* Commands that test for a pending request before they begin; loading an ELF
\* file and the viewer's reload do not.
Connecting == {"connect_cpu", "connect_system"}
Guarded == DOMAIN Script \ ({"loadelf", "reload", "disconnect"} \cup Connecting)

\* validate_memtest_range: whole words.
Testable(region) == region.addr % 4 = 0 /\ region.len % 4 = 0

(***************************************************************************)
(* write_memory_region and read_memory_region: a burst of words where the  *)
(* address is aligned and a word is left, else a halfword, else a byte.    *)
(***************************************************************************)
Chunk(addr, remaining) ==
  IF remaining >= 4 /\ addr % 4 = 0
  THEN [size |-> 4, beats |-> IF remaining \div 4 < MAX_BURST_BEATS THEN remaining \div 4
                                                                    ELSE MAX_BURST_BEATS]
  ELSE [size |-> IF remaining >= 2 /\ addr % 2 = 0 THEN 2 ELSE 1, beats |-> 1]

\* How far a call goes: bytes of its region, or requests.
CallLength(call, region) == IF call \in {"write_region", "read_region"} THEN region.len
                            ELSE IF call = "boot_cpu" THEN 2 ELSE 1

\* read and write ask for a size that fits the address: check_alignment.
AlignedSize(region) == Chunk(region.addr, region.len).size

\* The request that a call makes at an offset.  boot_cpu reads STATUS and then
\* writes BOOT.
RequestAt(call, region, offset, id, value) ==
  LET addr == region.addr + offset
      c == Chunk(addr, region.len - offset)
  IN  CASE call = "write_region" -> Request(id, TRUE, addr, c.size, c.beats, value)
        [] call = "read_region" -> Request(id, FALSE, addr, c.size, c.beats, 0)
        [] call = "boot_cpu" /\ offset = 0 -> Request(id, FALSE, STATUS, 4, 1, 0)
        [] call = "boot_cpu" /\ offset = 1 -> Request(id, TRUE, BOOT, 4, 1, value)
        [] call \in {"reset_cpu", "start_cpu"} -> Request(id, TRUE, RESET, 4, 1, RESET_CPU)
        [] call \in {"reset_system", "start_system"} -> Request(id, TRUE, RESET, 4, 1, RESET_SYSTEM)
        [] call = "send_read" -> Request(id, FALSE, region.addr, AlignedSize(region), 1, 0)
        [] call = "send_write" -> Request(id, TRUE, region.addr, AlignedSize(region), 1, value)

\* Wrong variant: a response is taken by its address alone.
Matches_Blind(call, r, event, pending) ==
  event.type = (IF r.write THEN "write" ELSE "read") /\ event.addr = r.addr

\* The event a call waits for: of its kind and address (and size, for a
\* region), and with no request pending any more.  The simulator's CPU reset
\* does not look at what is pending.
Matches(call, r, event, pending) ==
  /\ event.type = IF r.write THEN "write" ELSE "read"
  /\ event.addr = r.addr
  /\ call \in {"write_region", "read_region"} => event.size = r.size
  /\ call # "reset_cpu" => pending = None

\* An answer to the request that ends the call all the same: too few bytes
\* read, or a STATUS without the boot flag.
Unacceptable(call, r, event) ==
  \/ call = "read_region" /\ r.size = 4 /\ Len(event.data) # r.size * r.beats
  \/ call = "boot_cpu" /\ ~r.write /\ event.data[1] # 1
=============================================================================
