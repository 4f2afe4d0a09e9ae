------------------------------ MODULE SystemBus ------------------------------
(***************************************************************************)
(* bus-shared/src/bus.rs: the bus that routes an access of the program to  *)
(* one of the Rust devices, ticks them all, and owns the memory and the    *)
(* time they see.                                                          *)
(*                                                                         *)
(* A bus is its memory map and its devices; an access is a record with the *)
(* fields write, addr, size and value.                                     *)
(***************************************************************************)
EXTENDS VideoDevice

Saturating(addr) == IF addr < WORD THEN addr ELSE WORD - 1

Entry(base, size, dev) == [base |-> base, end |-> Saturating(base + size), dev |-> dev]

InternalMap == <<Entry(SIM_CONTROL_BASE, 4, "sim_control"), Entry(DRAM_BASE, WORD \div 16, "dram")>>

RangesOverlap(a, b) == a.base < b.end /\ b.base < a.end

Registrable(map, entry, size) ==
  /\ size # 0 /\ size % 4 = 0 /\ entry.base % 4 = 0
  /\ \A i \in DOMAIN map : ~RangesOverlap(entry, map[i])

\* A range that is refused leaves the map as it was.
RegisterDevice(map, base, size, dev) ==
  LET entry == Entry(base, size, dev)
  IN  IF Registrable(map, entry, size) THEN Append(map, entry) ELSE map

NewDevices == [mem |-> Cleared, tohost |-> NoTohost, dma |-> DmaReset, fifo |-> << >>,
               audio |-> AudioReset, video |-> VideoReset]

\* The first entry that holds the address; 0 if none does.
FindDevice(map, addr) ==
  LET holding == {i \in DOMAIN map : addr \in map[i].base .. map[i].end - 1}
  IN  IF holding = {} THEN 0 ELSE CHOOSE i \in holding : \A j \in holding : i <= j

\* What a device answers, and what reading it does to it.
DeviceRead(bus, dev, offset, size) ==
  CASE dev = "dram" -> CtxRead(bus.mem, DRAM_BASE + offset, size)
    [] dev = "dma" -> DmaRead(bus.dma, offset, size)
    [] dev = "fifo" -> FifoRead(bus.fifo, offset, size)
    [] dev = "audio" -> AudioRead(bus.audio, offset, size)
    [] dev = "video" -> VideoRead(bus.video, offset, size)
    [] OTHER -> Error

AfterDeviceRead(bus, dev, offset, size) ==
  IF dev = "fifo" THEN [bus EXCEPT !.fifo = AfterFifoRead(@, offset, size)] ELSE bus

DeviceWrite(bus, dev, offset, size, value) ==
  CASE dev = "dram" -> [bus EXCEPT !.mem = CtxWrite(@, DRAM_BASE + offset, size, value)]
    [] dev = "sim_control" -> [bus EXCEPT !.tohost = SimControlWrite(@, offset, size, value)]
    [] dev = "dma" -> [bus EXCEPT !.dma = DmaWrite(@, offset, size, value)]
    [] dev = "audio" -> [bus EXCEPT !.audio = AudioWrite(@, offset, size, value)]
    [] dev = "video" -> [bus EXCEPT !.video = VideoWrite(@, offset, size, value)]
    [] OTHER -> bus

\* The calls back into the host: what each callback is passed, if it is called.
NoCalls == [audio_config |-> << >>, audio |-> << >>, video |-> << >>, fifo |-> << >>]

WriteCalls(dev, offset, size, value) ==
  CASE dev = "audio" -> [NoCalls EXCEPT !.audio_config = ConfigCall(offset, size, value)]
    [] dev = "fifo" /\ FifoForwards(offset, size) -> [NoCalls EXCEPT !.fifo = <<value>>]
    [] OTHER -> NoCalls

\* Zero, where no device answers or the device refuses.
BusRead(map, bus, a) ==
  LET i == FindDevice(map, a.addr)
      answer == DeviceRead(bus, map[i].dev, a.addr - map[i].base, a.size)
  IN  IF i = 0 \/ answer = Error THEN 0 ELSE answer

\* The bus after an access, and the calls the access made.
BusAccess(map, bus, a) ==
  LET i == FindDevice(map, a.addr)
      offset == a.addr - map[i].base
  IN  IF i = 0 THEN <<bus, NoCalls>>
      ELSE IF a.write THEN <<DeviceWrite(bus, map[i].dev, offset, a.size, a.value),
                             WriteCalls(map[i].dev, offset, a.size, a.value)>>
      ELSE <<AfterDeviceRead(bus, map[i].dev, offset, a.size), NoCalls>>

\* Video and audio, the devices the runtime's user registers; then the DMA
\* engine, which is the only one to change the memory.
ClockAll(bus) ==
  LET video == VideoTick(bus.video, bus.mem)
      audio == AudioTick(bus.audio, bus.mem)
      dma == DmaTick(bus.dma, bus.mem)
  IN  <<[bus EXCEPT !.audio = audio[1], !.video = video[1], !.dma = dma[1], !.mem = dma[2]],
        [NoCalls EXCEPT !.video = video[2], !.audio = audio[2]]>>

DevicesBusy(bus) == IsBusy(bus.dma) \/ IsDmaActive(bus.audio) \/ IsPresentActive(bus.video)

\* The time the devices see moves on.
Elapse(bus) == [bus EXCEPT !.audio = AudioElapse(@), !.video = VideoElapse(@)]

Ageing(bus) == bus.audio.window # WINDOW \/ bus.video.frame_age # FRAME_TIME

AcknowledgeTermination(bus) == [bus EXCEPT !.tohost = NoTohost]
=============================================================================
