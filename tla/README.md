# Verification of the RISC-V system-on-chip and its host link

TLA+ models, TLC runs and TLAPS proofs for this repository: a RISC-V SoC in
SystemVerilog (`src/rtl`), the Rust host that drives it over a serial link
(`src/device-runtime`, `src/bus-shared`), and what surrounds the two.

All paths below are relative to `src/`; `rtl/` stands for `rtl/common/`.

## 1. The system

```
 guest program
      |                                                     Pocket build only
 +---------+   +-------------+   fetch, load, store    +--------------------+
 |   cpu   |---| host_bus_mux|------------------------>|                    |
 +---------+   +------+------+                          |   registered_bus   |--> system_controller
      ^ halt, boot,   | host window                     |  (fixed priority,  |--> sram, gamepad, eic
      | reset         v                                 |   registered       |--> bus_cdc_bridge -> sdram
 system_controller  host_bus_interface ---------------->|   stages)          |--> bus_cdc_bridge -> gfx2d
      |               ^   |    requests of the host     |                    |--> bus_cdc_bridge -> audiosys
 reset_controller     |   v                             +--------------------+
                  host_bus_rx host_bus_tx                      ^ apf_bus_bridge
                      ^   |
                     uart, or the bytes of the simulator
                      |   v
               HostBusHandler (packets)  <- background thread: fpga.rs or sim.rs
                      |
               SystemBus and its devices (DRAM, FIFO, DMA, audio, video)
                      |
               fpga-host shell, sim-view windows, tests
```

### 1.1 Components, state, operations, correctness

| component | state it keeps | operations | what makes it right |
|---|---|---|---|
| `cpu` control (`rtl/cpu/cpu.sv`) | FSM state, instruction, pc, request in flight, staged word, WFI, `mstatus.MIE`, done flags | one clock edge: fetch, decode, execute, memory, atomic, trap, interrupt, halt, boot | takes only its own responses, stores once, stops after its exit code, stands still before a reset |
| `host_bus_mux` | one request, its route, the response | accept, issue to system bus or host link, answer | one request in one place |
| `system_controller` | reset FSM, halt request, pending halt and resets, boot | write BOOT, HALT, RESET(cpu), RESET(system); read | halts before it resets; answers once it is done |
| `reset_controller` | counter, output | stretch a reset | long enough for every clock it reaches |
| `registered_bus` | grant, pending request, decode, offered slave, owner per slave, response | arbitrate, decode, issue, route a response | right master, no loss, no repetition, no starvation |
| `host_bus_interface` | host FSM, burst address and count, CPU request, staging register | start a burst, next beat, respond; send a CPU request, take its answer | addresses and words of every beat; both directions go on |
| `host_bus_rx`, `host_bus_tx` | packet parser, packet builder | byte in, byte out | frames well formed and in step with the engine |
| `uart`, `phase_accumulator` | bit counters, sampled byte, error flags | send, receive | no byte lost or made up |
| `cdc_handshake`, `ff_sync` | toggles, synchronizers, one word | two independent clock edges | a one-place channel |
| `bus_cdc_bridge` | a register on each side of two handshakes | cross a request, cross a response, reset either side | nothing lost, nothing left over from before a reset |
| `sync_fifo`, `sync_dpram` | pointers, count, output register, load pipeline | write, read | a first-in first-out queue |
| `async_fifo`, `skid_buffer` | Gray pointers; a spare register | write, read | the same |
| `sdram_peripheral`, `sdram_controller` | access FSM; command FSM, timers, refresh | split, read, merge, write; refresh | bytes written are bytes read; refreshes on time |
| `sram_peripheral`, memories | byte lanes, straddle FSM | read, write | bytes written are bytes read |
| `external_interrupt_controller` | pending, enable, claim | raise, claim, complete | no interrupt lost or claimed twice |
| `gfx2d`, `audiosys`, `gamepad`, LEDs | registers, frame-synchronous copies, sample queue | register access, frame and sample ticks | settings change only at frame boundaries |
| `apf_bus_bridge` | a three-state FSM | bridge access to bus access | one access per strobe |
| `fpga.rs` runtime | pending request (mutex), two channels, reset loop, transmit buffer | send request, both resets, one pass of `poll_once`, time out, connect, drop | each request one outcome, the right one; the CPU is served; the thread ends |
| `sim.rs` runtime, `sim_core` | the same over the simulated wires; a direct response of the host's own bus | the same | the same, and room for every packet, without which it panics |
| hung detector | last pc and its repetitions, the instruction being timed | check a cycle, reset | reports what the core really does |
| `device-runtime/src/lib.rs` | none | region and boot helpers, ELF loading over requests and events | what succeeds has happened |
| `HostBusHandler` | outgoing request and response, incoming and accepted request, parser and builder | bytes and packets in and out | requests and responses matched |
| `SystemBus` and devices (FIFO, DMA, audio, video, sim control) | memory, registers, transfers under way, the clock | read, write, tick, register a device, tell the time | the register protocols of the guest library |
| guest library and programs | loop counters, buffers | configure, wait for a flag, fill, trigger | succeed, and go on |
| `sim-view` | shared frame and sample buffers, the queue of configurations, the backends | push, take, drop the oldest; a step of the viewer; reload | whole frames, sound in order, the last frame shown |
| `fpga-host` | the connection, a command at a time | connect, load, dump, test, read, write, reset, boot, disconnect | as the runtime |
| `riscv_core`, `pkt`, `vcd-mcp` | none that matters here | encode, print, parse | tables and text |

The components interact by valid/ready handshakes (all of the RTL), by toggles
across clocks (the CDC blocks), by packets (`host_bus_interface` and
`HostBusHandler`), by a mutex and two channels (the runtimes) and by register
accesses (guest library and devices).

### 1.2 What is hard here

* **Interleavings**: two clocks with no fixed relation; a host and a core that
  both start transactions over the same transmitter and receiver; two threads
  and a mutex in front of a packet handler; up to three masters in a pipeline of
  registered stages.
* **Resets that do not reach everything**: a CPU reset resets the core and not
  the mux; the two sides of a clock crossing leave reset at different times.
* **Timeouts racing late answers**: the link has no sequence numbers, and the
  board keeps running between two sessions of the host.
* **Buffers with two owners**: a program draws or fills the buffer that a device
  is still reading; the runtime's thread, the viewer and the sound card share
  queues that drop when they are full.
* **Refresh against commands** in the SDRAM controller, which share one busy flag.
* **Waiting in a ring**: the controller waits for the core to halt, the core for
  the controller's answer; one receiver delivers packets for both directions.
* **Boundaries**: burst addresses at the top of the address space, accesses
  across two words or past the window, a queue at capacity.

PROJECT.json lists each at the line where it bites, with the properties that
would catch it.

## 2. Modules

| module | models | state | actions |
|---|---|---|---|
| `Channel` | nothing: the abstract first-in first-out channel | `queue`, `taken` | `Put`, `Take`, `PutAndTake` |
| `CdcHandshake` | `cdc_handshake.sv` with `ff_sync.sv` | `src`, `dst`: the registers of each clock; `taken`: the word last consumed | `SrcStep`, `DstStep`, `BothStep`: an edge of one clock or of both at once |
| `BusCdcBridge` | `bus_cdc_bridge.sv` over two `CdcHandshake` instances, the reset synchronizer of the peripherals, the registered bus and the peripheral as environment | `sys`, `per`, the handshakes, `rst`; `waiting`, `serving` | `SysStep`, `PerStep`, `BothEdges` |
| `SyncFifo` | `sync_fifo.sv`, `sync_dpram.sv` | pointers, count, RAM with its two read registers, output register; `taken`: the word last popped | `Clock` (every write/read combination), `ResetEdge` |
| `AudioPeripheral` | `audiosys_peripheral.sv` over `SyncFifo`, the word timing of `i2s_serializer.sv` | `audio`: modes and the right-half flag; `i2s`: reload, bit, channel, what was loaded | `AudioEdge(acc)`, `AudioResetEdge` |
| `InterruptController` | `external_interrupt_controller.sv` | `ic`: pending, enable, `meip` | `IcNext`, an edge with one register write |
| `AudioPlayback` | the two on their own clocks, the synchronizer of the interrupt, the pocket demo of `test_pocket_demo.rs`, the host | `irq`, `guest` | `AudioTick`, `SysTick`; `GuestAudio`, `GuestSys`, `Interrupt`: the program; `HostMode`, `HostSample`, `HostPending`, `SystemReset` |
| `RegisteredBus` | `registered_bus.sv` with masters and slaves that keep its protocol | one variable per stage; `master`, `slave` | `BusClock` |
| `HostBusInterface` | `host_bus_interface.sv`, the packet side of `host_bus_rx` and `host_bus_tx`, and the host of `host_bus_handler.rs` | `cpu`, `host`, `slice`, `rx`, `tx`, `bus`; `link`: the host's view | `Edge`, `HostSend`, `HostAnswer`, `Reset` |
| `Cpu` | `cpu.sv` | `cpu`: every control register | `CpuClock` |
| `HostBusMux` | `host_bus_mux.sv` | `mux` | `MuxClock` |
| `SystemController` | `system_controller_peripheral.sv` | `sc` | `ScClock` |
| `CpuSubsystem` | their wiring in `top.sv`, `reset_controller.sv`; the buses and the host as environment | the three above, `mem`, `host`, `rst` | `Clock`: one edge of all of them |
| `Sdram` | `sdram_peripheral.sv` over `sdram_controller.sv` and a chip | `p`, `c`, `chip`; `golden`: the bytes that should be there | `Start(r)`, `Run` |
| `HostBusHandler` | the packet level of `host_bus_handler.rs`, the routing of requests | (operators on a record) | `SendRequest`, `FinalizeRx`, `ReceiveResponse`, `Accept`, `Complete`, `StartTx` |
| `HostCommands` | the commands of `shell.rs` and the viewer's reload as calls to `lib.rs`, the calls as requests, what each makes of an event | (operators) | `Script`, `RequestAt`, `Matches`, `Unacceptable` |
| `DeviceRuntime` | the client's thread, `fpga.rs` and `sim.rs` as two backends, the link, the target behind it, the start-up | `main`, `pending`, `commands`, `events`, `bg`, `handler`, `direct`, `tx`, `toDev`, `toHost`, `dev`, `mem` | the client: `Start`, `Arm`, `Enqueue`, `AskReset`, `Poll`, `IdlePoll`, `Disconnect`, `Join`, `Drain`, `GiveUpReset`; the thread: `Command` ... `Settle`, the steps of a pass; `Failure`; the target: `CpuIssue`, `DevTake`, `DevServe` |
| `HungDetector` | `hung_detector.rs` as `sim_core.rs` uses it | `core`, `cycle_count`, `detector`, `report` | `Cycle`, `IdleCycle`, `ResetCpu`, `Boot`, `Halt`, `SystemReset` |
| `Memory`, `MediaConfig` | `memory.rs`, `bus_device.rs`; the configuration registers of `audio.rs` and `video.rs` | (operators) | reads, writes, chunks; decoding and encoding |
| `DmaDevice`, `FifoDevice`, `AudioDevice`, `VideoDevice` | the devices of `bus-shared/src`, and `sim_control.rs` | (operators on a record each) | register reads and writes, ticks, the passing of time |
| `SystemBus` | `bus.rs` | (operators) | `RegisterDevice`, `BusRead`, `BusAccess`, `ClockAll`, `Elapse` |
| `GuestPrograms` | `riscv_shared` and the programs of `rust-test-program` that drive a Rust device, as the accesses they make | (operators) | `Boot`, `Request`, `Continue` |
| `SharedBuffers` | `shared_buffers.rs` | (operators) | `PushFrame`, `PushSamples`, `SetConfig`, `AfterPull` |
| `HostSystem` | a program, the devices, the runtime's thread, the shared buffers, the viewer or the console | `guest`, `bus`, `ticked`, `events`, the buffers, `viewer`, `state`, `backend`; `shown`, `played`, `console`: what has come out | `GuestAccess`, `Tick`, `UpdateElapsedTime`; the parts of `SimViewer::step`; `PullSamples`, `LoadElf`, `PollConsole` |

`HostCommands` extends `HostBusHandler` and `DeviceRuntime` extends both;
`HostSystem` extends `SharedBuffers`, which extends `GuestPrograms`,
`SystemBus` and the devices. `DeviceRuntime` follows the requests of the host and
takes what the target does as given; `HostSystem` follows the accesses of the
program, each served in one go, as both runtimes do.

Conventions. A block with one clock has one action, which gives every register
its next value from the present ones and a record of inputs, as nonblocking
assignments do; an operator `XNext` is the part of the `always_ff` block that
assigns register `X`. A name in the source is kept where TLA+ allows it. An
operator `Name_Variant`, marked "Wrong variant", is a deliberately wrong form of
`Name`: nothing uses it, except that with `Name` replaced by it the property
named in PROJECT.json "mutants" must fail, which shows that the property watches
that part of the code. History variables (`taken`, the `word` and `mode` of `i2s`, `golden`, `link`, `shown`, `played`,
`console`, the numbers of requests, `wrote`, `exiting`) record what happened and steer nothing.

Abstractions:

* Data that only travels is a model value, a small number, or the identity of
  the access it belongs to, so that a swapped word shows.
* `Cpu`: an instruction is its path through the FSM; the pc is one bit that
  flips, enough to tell a word fetched for this pc from one for the last; the
  units of the datapath take any number of cycles.
* `RegisteredBus` leaves its `rst` out: `rst_internal` resets the bus, its
  masters and its slaves in the same cycle.
* `Sdram` leaves out the reset, the pins and the start-up commands (one state),
  and all its timers share the constant `WAIT`; `LANES` is 2 in the runs, which
  keeps partial, whole and straddling accesses.
* `DeviceRuntime` moves whole packets; a timeout falls only after the background
  thread has read the command, which takes it milliseconds against a second.
  Every write leaves the number of its command in each byte, so that memory shows
  who wrote it last. A memory test writes that number where the code writes a
  pattern of addresses. An ELF file has `SEGMENTS` segments of the region's length.
* `HostSystem`: the widths of bytes, register fields and frames are constants
  (`BYTE`, `COUNT_FIELD`, `SIZE_FIELD`); a frame period and the second of the
  audio device are a few steps of a clock that stops where nothing depends on it.
  An endless program alternates between two frames. On the board, what lies
  between the core and the bus only spreads accesses out, so an access is one step.
* `HungDetector` counts the core's own cycles beside the detector's; the core
  may do anything a cycle allows.
* `HostBusInterface` moves beats, not bytes.
* `BusCdcBridge`: a reset lasts at least `RESET_EDGES` edges of the slow clock.
  The boards hold theirs for a millisecond or more and the simulator for 8
  cycles. With two synchronizer stages two edges are too few and with three
  stages three are; nothing in the RTL ties the two numbers together.
* `AudioPeripheral`: the tone generator is an input (starting, playing, crossing
  zero), the bits of a word are a count, and the right half that is kept is the
  half of `taken`, the word last popped.
* `AudioPlayback`: bus and bridge are the freedom to take effect at any later
  edge of the slave's clock; samples are numbered modulo `SAMPLES`; a reset of the
  system lasts longer than the synchronizers.

## 3. Runs

| run | instance | states | shows |
|---|---|---|---|
| `crossing` | 3 words, 3 stages; the bridge with 2 requests, resets of 3 edges | 13 538 | every word crosses once, unaltered; nothing survives a reset into the next epoch; a request is in one place and is answered unless reset |
| `audio` | 2 samples, depth 2, one interrupt source | 421 056 | the queue is a FIFO channel although head and RAM race, and offers what it holds; channels paired; no sample dropped; an empty queue is refilled under any interference of the host |
| `bus` | 3 masters, 2 slaves; the link with 3 kinds of host burst, CPU writes, addresses modulo 8 | 74 778 | responses routed, no loss, no repetition, any two masters both served; bursts exact across the wrap of the address, responses well formed, both directions answered |
| `cpu` | 5 targets, 4 host operations, boot pin free | 160 610 | the properties of core, mux and controllers in any order of halts, boots, resets and interrupts |
| `cpu_boot_lost` | one target, boot and CPU reset | | violation, see section 6 |
| `sdram` | 2 words of 2 bytes without refresh; and refreshes with bytes of one value | 580 739 | every access at every size and alignment reads and writes exactly its bytes; no strobe lost, every access answered, every refresh done |
| `sdram_race` | data and refresh together | | violation |
| `runtime` | both backends; 11 commands over 3 regions; 2 commands with an access of the CPU or with a fault, or 1 with both; 3 ways to start on 5 states of the board | 982 789 | `HandlerInv`: one outcome per request, in order, and no work for a forgotten one; `AlwaysRoom`, `NeverUnsolicited`; until a failure: `InTimeAnswersOwn`, `CommandsAchieve`, `InTimeServed` |
| `runtime_stale` | a read, a fault | | violation |
| `system` | 8 programs, a window or headless, 1 reload, 3 frames, 3 samples | 700 732 | `FramesWhole`, `SoundInOrder`, `LastFrameShown`, `ConfigSettles`, `ProgramsSucceed`, `KeepsGoing` |
| `fpga_pacing` | `test_video_pattern` on the board's runtime | | violation |
| `reload_hang` | 2 program counters, limits of 3 | | violation |

Several properties are conjunctions of named parts, one part per idea:
`HandlerInv` (types, one outcome, what is outgoing is pending, helpers in step), `LinkInv` (slice ownership, frame agreement, one answer per CPU access),
`CoreInv`, `ResetSafe`, `BusInv`, `ControlInv`, `FifoInv`, `PlaybackInv`, `BridgeInv`; the definitions and their comments are in the
modules.

### Why the bounds are enough

* Three stages are what the boards use, two the fewest `cdc_handshake` allows; the
  theorems of section 5 hold for any number.
* Depth 2 is the smallest queue the RTL allows: it fills, wraps, runs empty while
  a load is on its way and has its low-water mark at one. The invariants were also
  checked once at depth 4 with bursts of 3 samples (3.9 million states). The
  run has one stage in the synchronizer of the interrupt (`ff_sync` alone sets no
  minimum), which is a delay of one system edge anywhere among the audio edges;
  each further stage adds another. With two stages the invariants and `IsChannel`
  were checked once too.
* Three masters is the largest build. Two slaves give two owners, a response
  each and an unmapped address.
* Bursts of 1, 2 and 3 beats have a first, a middle and a last beat; modulo 8 they
  run over the top with strides of 2 and 4 and stand still when fixed.
* Two words make every access either contained, straddling, at the end of the
  window or past it.
* Refresh every 20 cycles is a few accesses apart, and the accesses start at any
  cycle, so a refresh falls on every state of either FSM. The controller's own
  interval is what `SlowRefresh` asks for: an access that began just before, one that
  was latched, and the refresh fit between two (`3 * WAIT + STAGES + 6` edges). TLC
  finds `ControlInv` violated one edge below that bound, for each `WAIT` and `STAGES`
  tried. The boards have some 770 to 1020 cycles (7813 ns less `REFRESH_SLIP_CYCLES`);
  nothing in the RTL compares the two for a very slow clock.
* `runtime`: the second command meets what the first has left, and a command is
  up to six requests long. The regions are a word on the target (which a memory
  test accepts), a halfword, a word and a byte in a row in the host's bus, and two
  words whose burst spans the border and is refused. One fault may fall on every step of the threads and of the link; the
  CPU's access may fall before, between or after the requests.
* `system`: three frames are more than the shared buffer holds, three samples are
  a full and a partial batch, and a reload meets a device at work. Frames of two
  pixels are more than one chunk in one format and a fraction of one in the other.
* `reload_hang`: limits of three cycles and repetitions stand for 10 000 and
  their like: the detector only compares.

`CHECK_DEADLOCK FALSE` is set where the system stops: the runs of
`DeviceRuntime` (a dropped runtime, or a packet that waits at the target for
ever), of `HostSystem` (the viewer leaves) and of `HungDetector` (a report ends
the simulator).

## 4. Fairness

Every liveness property assumes that clocks run and that the other side of a
handshake answers in the end, and nothing else. No specification obliges the
environment to ask for anything, to reset or to time out.

* `crossing`: both clocks run, a consumer takes a word that stays offered to it, a
  reset ends, peripheral and bus take what they are offered.
* `bus`, `cpu`: weak fairness of an edge at which everything asked for is
  delivered (`Prompt`) and nothing new is asked. `registered_bus` has fixed
  priority, so `Served` speaks of masters whose rivals, but one, come to rest.
  With three busy masters, the answer of the third can stay in its slave for
  ever, and an unmapped access, which the bus answers itself, goes before all
  slaves.
* `bus`, the link: the link, the bus and the CPU finish what they have begun, and the
  host answers CPU requests (`docs/plans/host-initiated-bus-requests.md`, rule 3).
* `sdram`: the clock runs and the bridge takes its response.
* `runtime`: both threads and the target keep running (weak fairness of what the
  client has begun, of the thread and of the target); the link moves a packet
  sooner or later, however often it moves none, and the simulator's memory answers
  after its latency (strong fairness of `LinkMoves`). The client need not begin a
  command, nothing need fail. `InTimeServed` holds until a failure: after one, a
  packet may stay at the target that nobody takes.
* `system`: the runtime's thread serves and ticks, the viewer goes round, the
  simulator's clock moves on. The user need not do anything and the sound card
  need not ask for samples.
* `audio`: both clocks run, the program goes on and takes its interrupts; the host
  need not do anything. `Refilled` speaks of an interrupt that the program has
  enabled and of a playback that the host has not ended.

`HaltServed` and `CpuResetServed` exclude `SelfAccess`, the program's own access
to the system controller: the controller is not ready while it resets the CPU
(`system_controller_peripheral.sv:108`), and the core does not halt in the middle
of an access, so a reset asked for by the host while the program waits there
never ends.

## 5. Proofs

| module | theorem | statement |
|---|---|---|
| `ClockCrossingProofs` | `HandshakeSafe` | `Spec => []Inv`, for any payload and any number of stages |
| | `CaptureStable` | `Spec => []StableAtCapture` |
| | `HandshakeIsChannel` | `Spec => IsChannel`: the refinement of `Channel` |
| | `BridgeSafe` | `Spec => []BridgeInv`, for any requests, any number of stages and any longer reset |
| `AudioPlaybackProofs` | `FifoSafe`, `FifoIsChannel` | `SyncFifo`: `Spec => []FifoInv` and `Spec => IsChannel`, for every depth and kind of word |
| | `PlaybackSafe` | `PlaybackSpec => []PlaybackInv`, for every depth, burst and number of samples |
| | `PlaybackFifoSafe`, `PlaybackIsChannel` | the queue inside the peripheral |
| `BusAndLinkProofs` | `BusSafe` | `Spec => []BusInv`, for any numbers of masters and slaves |
| | `BusResponseRouted`, `BusOnePlace` | the two parts that users of the bus rely on |
| | `LinkSafe` | `Spec => []LinkInv`, for any bursts, words and width of an address |
| | `BurstsInPlace`, `ResponsesInOrder` | `Spec => []BurstAccess`, `Spec => []ResponseStream` |
| `CpuSubsystemProofs` | `CoreSafe`, `ResponsesFit`, `ResetIsSafe`, `ExitIsFinal` | `Spec => []CoreInv`, `[]ResponseFits`, `[]ResetSafe`, `[]ExitStops`, for any targets, operations of the host and length of a reset |
| | `StoresOnce` | `Spec => StoreOnce`, an action property |
| `SdramProofs` | `ControlSafe` | `Spec => []ControlInv`, for any words, timers and interval that `SlowRefresh` allows |
| | `ReadsAreLatest`, `AnswersAreWritten` | `Spec => []ReadsLatest`, `Spec => []AnsweredIsWritten` without refreshes |
| `DeviceRuntimeProofs` | `NeverUnsolicitedHolds`, `AlwaysRoomHolds` | `Spec => []NeverUnsolicited`, `Spec => []AlwaysRoom`, for any backends, commands, regions and budgets |
| | `AnswersOwnHolds` | `Spec => []InTimeAnswersOwn` |
| `DeviceRuntimeOutcomes` | `TypeCorrect`, `ConcludedOnce`, `OutgoingPending`, `HelpersReturn` | `Spec => []TypeOK`, `[]OneOutcome`, `[]OutgoingIsPending`, `[]HelpersInStep`: the parts of `HandlerInv` |
| | `HandlerCorrect` | `Spec => []HandlerInv`, for any backends, commands, regions and budgets |
| | `CommandsCorrect` | `Spec => []CommandsAchieve` |
| `HostSystemProofs` | `ConfigSettled` | `Spec => []ConfigSettles`, for any set of the programs, any frames, samples, sizes of fields and buffers |

Each rests on an inductive invariant, stated in its module; the proof that a step preserves it has one
lemma per conjunct or per action.

**Handshake.** The only assumption is `StagesAssumption` (two stages or more). "The word
is captured once" is not inductive: it depends on where in the chain of registers the
toggle is. `ChainOrdered` says that the bits from `req_toggle` through the request
synchronizer, `req_prev`, `ack_toggle` and the acknowledge synchronizer back to the
source form one chain along which at most one new value travels. The source is ready
only when the chain has settled (lemma `Settled`); therefore it never starts a second
word behind the first, and the capture condition implies that the whole request
synchronizer already agrees. The refinement maps a word between `src_fire` and
`dst_fire` to a one-place queue.

**Bridge.** `LongReset` is assumed: two stages or more, as `bus_cdc_bridge.sv:70`
insists, and a reset that is longer than the synchronizer, as every build's is
(`RESET_CYCLES` of `reset_controller.sv` is 8 by default and the boards hold theirs for
more than 70 000 cycles). `Linked` holds out of reset: two handshakes, `Hand` of each,
and `OnTheWay`, the one register that the request is in. In reset, `Resetting` says how
far the falling edge has come in the peripheral's synchronizer, and that the peripheral
side is clear once it has come through; the two meet when the system side leaves reset
with the peripheral side still held (`PeriphRst => PerIsReset`). That is the place at
which `RESET_EDGES > BRIDGE_STAGES` is needed, and where TLC finds the invariant broken
without it.

**Queue and playback.** `DepthAssumption` and `PlaybackAssumption` are those of the
RTL's parameters and of the demo program. The head of the queue may be in the output
register or in either register of the RAM; `FifoIInv` says that it is in exactly one of
them when anything is queued, and that the write pointer is `count` ahead of the read
pointer. `Words` gives what is queued as a sequence over a ring that wraps, with a lemma
for a word put, taken, and passed around the RAM; from these follow `FifoInv` and that
each edge is a `Put`, a `Take`, both or neither of `Channel`. In the peripheral,
`Serializer` ties `lrclk` to the channel that comes next (a frame begins with the left
one), and `Halves` says that while a left half from the queue is under way the right
half kept is that of the same word. `Filling` bounds what the program has still to write
by the room it has read, which only grows until the burst is over, whatever the host
resets.

**Bus.** The assumption is `BusAssumption` (at least one of each). `ResponseRouted` is
not inductive: a response is copied from a slave for the master in `owner`, so
`OwnerAgrees` must tie every owner to a waiting master and to what its slave does; an
owner is set from the pending request when the slave takes it, so `StagesAgree` must tie
the decode and the offer to that request; and no second request of the same master may
be under way, which is `OnePlace`. `GrantLive` keeps the grant from falling on a master
that does not ask. `BusInv` is their conjunction. Lemma `Events` gives what each event
of an edge presupposes, `MasterStep` and `SlaveStep` what an edge does to one master and
one slave, `Places` how a request moves, and there is one lemma per conjunct. `LowestIn`
shows that the priority arbiters choose a candidate, by well-foundedness.

**Link.** `Parameters` are `SizesAssumption` and `RequestAssumption`: an address width,
and requests with as many words as beats. The invariant relates four counters that the
RTL keeps apart. `Engine` gives the address registers and the beat counter of the FSM as
functions of the number of accesses done; `Progressed` ties that number to the words
read and the beats seen off; `Transmits` ties the beat counter of `host_bus_tx` to the
engine's and says whose beat it sends. `Receives` is the heart: what waits at the
receiver is exactly the rest of the host's request, beat by beat, with the answer to the
CPU's access, if it has been sent, somewhere in it. So the engine and the CPU side each
find their own beats whatever the order, and neither can starve the other of the
receiver by taking a beat of the other. `Mix` and its lemmas say what taking, adding and
inserting a beat makes of such a sequence.

**Core.** `TargetsAssumption` lists the targets and operations; any subset may be used.
The request of the core passes through mux, bus, controller or host link; `UnderWay` is
that request wherever it is, and `RequestFits` says that what the core waits for was
asked for in the state it is in and at its present pc, that what nobody waits for is a
fetch, and that a halt may stand with a fetch under way. It needs `InstrKnown` (a staged
word is for this pc) and `OneOutstanding`. `OncePerInstr` bounds the states in which
`completed` and `wrote` can be up, which gives `StoreOnce`. On the controller's side
`OneAccess` and `ResetPhases` tie the reset FSM to the one access it serves, and
`HaltStands` keeps the halt request up until the core has stopped, from which
`ExitStops` follows: the answer to the exit code's access cannot overtake it.

**SDRAM.** `Control` is inductive for `SlowRefresh` (section 3). `HandedOver` says where
a command is: a strobe, a request that waits, or one that is worked on; a refresh may
come before a waiting request and then the peripheral may take the end of the refresh
for that of its command, as in section 6, but even then no strobe is dropped and the
controller works on the last command. That a second refresh never comes first is a
matter of time: `Timing` bounds the refresh counter by the edges left (`Left`) to the
end of what the controller does. Without refreshes `Data` is inductive as well: the FSMs
go in step (`InStep`), halves of words arrive in order (`WordMoves`), and `Holds`
relates the chip to the memory that software sees: equal when idle; while a write reads,
different by the bytes of the request (`Target`); while it writes, equal but for the
words still to come, which are in the merged pair. `ReadsLatest` and `AnsweredIsWritten`
follow. With refreshes they do not hold (`sdram_race`), which is why their theorems
assume `REFRESH_INTERVAL = 0`.

**Runtime.** The assumptions are those of the constants: addresses, regions inside them,
commands of the script, budgets of natural numbers. `LinkInv` follows two things through
the runtime. `OneAccess`: an access of the CPU is in one place, its packet on the link, a
buffer of the handler, or the packet of its answer in either buffer of the port.
`OneRequest`: so is a request of the host, and the handler keeps it outgoing until its
response is taken. Both are predicates of the handler and the three channels given as
arguments, so that each operation of the handler (`TakeOp`, `StartOp`, `AcceptOp`,
`CompleteOp`) and of the port (`SplitOp`) is one lemma, and a step of a thread is one or
several of them. A timeout drops what it likes of the link: `OneAccess` survives that,
`OneRequest` does not, hence `InTime` in `AlwaysRoom`. The hard part is the reset of the
system, which stops the CPU's waiting while its access may still be in the handler:
`Restarted` allows that from the moment the target starts anew until the thread clears the
handler, and `ResetLast` says why nothing is sent in between, for the packet of the reset
is the last to leave and finds no other behind it. For that no other command may write
RESET_SYSTEM to RESET, which is `ClientInv` and `CommandsInv`: the client's registers of
a command (its call, offset and region) keep every request it makes inside its region.
The exception is `count.botched`, a reset that fails with its packet in the handler
(section 6). `LeftOver` is the one case in which a response of an earlier session is
under way in time: at a start with a reset of the system, to whose request it does not
match, so that it is dropped.

`AnswersOwnHolds` adds whose request it is, in three invariants that each use the one
before. `OwnInv`: the packets of the host in either buffer, the request the target works
on and the response in the handler are the outgoing request, and a response on the way
that would be taken for its own is its own. `PendingInv`: the request the client is about
to send, the command that carries it, the outgoing request and the response a thread has
at hand are the pending one, and while a reset is carried out none is pending.
`EventsInv`: so an event that carries a response carries that of its request. All three
speak of the time before the first failure: after a timeout an old response may still
come that has the same metadata as the new request, which is `runtime_stale` (section 6).

**Outcomes.** `DeviceRuntimeOutcomes` goes on from there, a layer at a time, each
inductive relative to those before it. `RequestsInv`: every request in any part of the
runtime is one that the host can have made (`Known`), and the packets on the link are
`Accounted` for: one for the host's request and one for the CPU's access, and one more
for each failure, since a timeout forgets a request and not its packets; `TypeOK` follows.
`OrderedInv`: the identifiers of the events rise and stay below that of the pending
request, so nothing is concluded twice or out of order (`OneOutcome`). `TimelyInv`: before
the first failure nothing is concluded but by its response. `CallInv` and `SimInv` tie the
client's place in its call to what is pending, in the simulator as well, where a reset of
the CPU is an ordinary request that the client waits for. `HelpInv` then says that
nothing is pending when a helper returns or while the client waits for a reset, but that
reset, or one that it has given up and the thread may still be carrying out.

**Commands.** `CommandsAchieve` says what a command has done when it returns, so its
invariant must say what it has done so far. `Ground` collects all of the above. `OffsetInv`
gives the request as a function of the place in the call. `KindInv` and `AloneInv`: a reset
under way is the one the client waits for, and once a command has made its first request
nothing else is pending. `ShownInv` is about the answers: a response that will be taken
for the outgoing request, wherever it is, belongs to a request that memory shows
(`Shown`): a write is in every byte, what a read brings is what memory holds. `RestartInv` and `FreshInv` follow the reset of the
system from the handler to a link with nothing of the past on it. `ProgressInv` is the
loop invariant of the calls: the region is written up to the offset, the data read is that
of memory up to the offset. `StaleInv` is what `fresh` buys: the events a comparing command
finds are those of its own requests. `CommandInv` is their conjunction. The assumption is
that nothing has failed (`InTime`) and that no old event was left at the start of the
command (`main.fresh`), both of which the code cannot do without (section 6).

**Configuration.** The assumptions are those of the constants: `RunAssumption` (programs
that exist) and `BuffersAssumption` (what the programs copy, draw and play fits into their
buffers; were it not so, a program would write its samples over the registers). Two
threads set the configuration of the shared buffer, the runtime's when the program writes
the register and the viewer's when it applies what the first has sent it. `Agreed` says
where the device's present configuration is: last in the queue, or else in the viewer's
hand, or else in both buffer and backend. For this to be inductive, a program must write
no configuration that the device refuses, since a refused one is put into the register and
told to no one: `Proper` and its lemmas show it of every step of every program, through
the recursion of `FlattenSeq`. Neither recursion nor induction over data can be cited as
such; `FlattenExists` shows that the recursion has a solution, and `FlattenProper` that
every prefix is proper, both by taking the least counterexample (`Least`, from
`NatLessThanWellFounded`). `AccessTells` and `BusKeeps` show that of all accesses and ticks
only such a write changes the device's configuration, and that its callback is called
with it.

Only model-checked: `InterruptController`; of `HostSystem`, `FramesWhole`, `SoundInOrder`,
`LastFrameShown` and `ProgramsSucceed`, which speak of the bytes that a device has read
while the program went on, so that an invariant would have to relate every position of the
program to every position of a transfer; the offer of a queued word
(`Offered`) and every liveness property (fairness and ENABLED are out of the prover's
reach). No module declares a RECURSIVE operator, so each may be proved about later.

## 6. Where the code disagrees with its documents

Each of these is a run that ends in a violation:

* `cpu_boot_lost`: a CPU reset while a fetch is on its way leaves the mux with a
  response that the reset core will not take; booted again, it never fetches.
  `docs/memory-map.md:235`: "Write boot address to start CPU".
* `sdram_race`: a command latched as the controller leaves idle for a refresh is
  taken for finished when the refresh ends; the read returns the word of the read
  before. `testbench/tests/sdram_peripheral_test.rs:351`.
* `runtime_stale`: the answer to a request that timed out, or that an earlier
  session of the host asked for, is handed out as the answer to the next request.
  `bus-shared/src/host_bus_handler.rs:538`.
* `fpga_pacing`: the FPGA runtime never tells its devices the time, so
  `FRAME_READY` does not come back after a frame. `bus-shared/src/video.rs:44`.
* `reload_hang`: a core reset in the middle of an instruction and booted later is
  reported as hung in its first cycle. `sim/hung_detector.rs:52`.

Seen while modelling, without a run of their own:

* `host_bus_interface.sv:184` executes a host request while an access of the CPU
  is outstanding; `docs/plans/host-initiated-bus-requests.md:72` says the target
  completes what is outstanding first. Both still complete (`bus`).
* A CPU reset while the program waits for the system controller never ends
  (section 4; `docs/memory-map.md:249`).
* A store-conditional that stores reports completion twice (`cpu.sv:966`; the
  comment at `cpu.sv:45` says one cycle). `CompleteOnce` excludes just that case.
* A timeout of a host request also throws away a request of the CPU that the
  handler holds (`fpga.rs:367`), which the CPU then waits for for ever; so does a
  new session that does not begin with a system reset, and a CPU reset at its
  start times out, since the core does not halt in the middle of an access.
* A late response of another kind completes the next request under that
  request's address; a helper that waits for a read and gets a write then waits on
  with nothing pending.
* A hard reset that fails with a port error leaves its packet in the handler; it
  is sent with the next pass, and the answer to an access of the CPU that was
  accepted before it can reach a core that does not wait (`fpga.rs:525`).
  `NeverUnsolicited` excludes that case (`count.botched`).
* A system reset reports success although its packet was only partly written and
  what was left is thrown away (`fpga.rs:535`).
* In the simulator's runtime a request that timed out keeps the next ones from
  being sent until its answer arrives (`sim_core.rs:367`).
* A region that spans `0x8000_0000` is written up to the burst that spans it, and
  then refused (`lib.rs:406`).
* The console's loop takes one event each time round, while the FPGA runtime emits
  one for every access of the CPU: events pile up, and a helper may take an old one
  for its own (`CommandsAchieve` speaks of commands that find none).
* A reset or reload of the CPU leaves the Rust devices running, and `boot_cpu`
  may swallow the exit code of the program before.
* `FRAME_READY` stays up while a frame is being read (`video.rs:106`), so every
  program draws into the buffer that is read. `FramesWhole` holds because the
  device reads an aligned chunk per tick and is ticked between two accesses; with
  "one byte per cycle" (`video.rs:43`) it would not, as the mutant
  `OptimalReadSize_Byte` shows.
* The frame at which a change of mode takes effect is mixed: its left channel is
  still loaded in the old mode, its right one in the new
  (`audiosys_peripheral.sv`, `i2s_serializer.sv`). `StereoPaired` says what is
  left: the first right channel of a playback is silent. No document promises more.
* The loop that waits for a CPU reset (`fpga.rs:504`) can miss its end when a late
  answer used up the event it waits for; the thread then loops on, and dropping the
  runtime waits for it. The client gives such a reset up after a while and may begin
  another command while the thread still holds it pending, or carries out one that is
  queued behind it; `HelpersInStep` excludes that reset and nothing else.

## 7. Not modelled, and the plan

Not modelled on purpose: the arithmetic of the ALU, the multiplier and the FPU
(32-bit values are out of reach of enumeration, and the control around them is in
`Cpu`), pins and clocks of the boards, vendored framework code, the disassembler,
parsing and drawing in the tools (text and tables), the packet encoder and the
waveform server, guest programs that test the core.

Next, in this order:

1. `InterruptController` in `CpuSubsystem`, in place of the free `irq` input: the
   core's interrupt entry and WFI against claim, complete and `meip`.
2. The bytes of a packet: the parser and builder of `HostBusHandler` and of
   `host_bus_rx`/`host_bus_tx`, with transmit buffers cut by a timeout.
3. `apf_bus_bridge` as a third master of `RegisteredBus`; `SramPeripheral` next to
   `Sdram`, against the same byte memory.
4. `uart`; `SkidBuffer` and `AsyncFifo` as implementations of `Channel`; the
   datapath parts with small state (fetch buffer, CSR traps, divider) as operators
   over narrow words.

Abstract specifications worth stating: `Channel` for every queue and crossing; a
one-access-at-a-time memory for bus, bridge and SDRAM together; one request, one
outcome for the runtimes.

Theorems worth proving next: `FramesWhole` of `HostSystem`, from an invariant that keeps
the video device's place in a frame ahead of the program's; `ProgramsSucceed` for the
console programs; the invariant of `InterruptController` on its own.

## 8. How to run

In this directory: `tlc -config MCX.cfg MCX.tla` for a run (the pairs are in
PROJECT.json), and `tlapm M.tla` for each module `M` of section 5. No run takes more than
four minutes on two cores, no proof more than fifteen.
