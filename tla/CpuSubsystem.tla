---------------------------- MODULE CpuSubsystem ----------------------------
(***************************************************************************)
(* How rtl/common/top.sv wires the CPU core, host_bus_mux, the system      *)
(* controller and the reset controller together.  The buses between them   *)
(* and the memories are one transaction of the CPU and one of the host     *)
(* that take any number of cycles.                                         *)
(*                                                                         *)
(* The blocks share one clock: Clock takes all of them through one edge.   *)
(* Only the core is reset by a CPU reset; the mux is not (top.sv:381,388), *)
(* so a request of the core may outlive it.                                *)
(***************************************************************************)
EXTENDS Cpu, HostBusMux, SystemController

CONSTANTS
  CpuTargets,    \* what the program addresses: "sys", "host" or an access of ScOps
  HostOps,       \* the accesses of the host to the system controller
  ExtBoot,       \* the levels of the ext_cpu_boot pin
  RESET_CYCLES   \* length of a system reset

ASSUME TargetsAssumption == /\ CpuTargets \subseteq {"sys", "host"} \cup ScOps
                            /\ CpuTargets \cap {"sys", "host"} # {}
                            /\ HostOps \subseteq ScOps
                            /\ ExtBoot \subseteq BOOLEAN /\ ExtBoot # {}
                            /\ RESET_CYCLES \in Nat

VARIABLES
  mem,      \* the CPU's transaction on the system bus or the host link
  host,     \* the host's access to the system controller
  rst,      \* the reset controller: rst_internal and its counter
  exiting,  \* the program's own write to REG_HALT has been answered
  wrote     \* the present instruction has had a write accepted

vars == <<cpu, mux, sc, mem, host, rst, exiting, wrote>>

(***************************************************************************)
(* Signals                                                                 *)
(***************************************************************************)
CpuRst == rst.out \/ sc.cpuRst

AFire(irq) == MemAValid(irq, sc.reqHalt) /\ MemAReady
DFire == MemDValid /\ MemDReady

\* What the core may address: programs run from memory and read registers,
\* and only writes reset, boot or halt anything.
Targets == CASE cpu.state = "S_FETCH"    -> CpuTargets \cap {"sys", "host"}
             [] cpu.state = "S_MEM_READ" -> CpuTargets \cap {"sys", "host", "reg"}
             [] OTHER                    -> CpuTargets

\* A request carries the state and the pc it was made in.
Request(to) == [kind |-> cpu.state, host |-> to = "host", to |-> to, pc |-> cpu.pc]

\* The response handed to the mux at this edge.
Answer == IF mem.st = "answer" /\ DReady(mem.req.host) THEN mem.req ELSE Empty

\* The masters whose access waits at the system controller.
Waiting == {m \in {"cpu", "host"} :
              \/ m = "cpu" /\ mem.st = "busy" /\ mem.req.to \in ScOps
              \/ m = "host" /\ host.st = "req"}

AccessOf(m) == CASE m = "cpu"  -> mem.req.to
                 [] m = "host" -> host.op
                 [] OTHER      -> NoAccess

(***************************************************************************)
(* The environment: an access of the CPU takes the bus to memory or to the *)
(* system controller and comes back, in any number of cycles.  pick is the *)
(* master whose access the controller accepts, take its response handshake.*)
(***************************************************************************)
MemReset == [st |-> "idle", req |-> Empty]

MemNext(issued, pick, answer, take) ==
  CASE issued                         -> [st |-> "busy", req |-> mux.req]
    [] pick = "cpu"                   -> [mem EXCEPT !.st = "sc"]
    [] mem.st = "busy" /\ answer      -> [mem EXCEPT !.st = "answer"]
    [] mem.st = "sc" /\ take          -> [mem EXCEPT !.st = "answer"]
    [] mem.st = "answer" /\ Answer # Empty -> MemReset
    [] OTHER                          -> mem

HostReset == [st |-> "idle", op |-> NoAccess]

HostNext(pick, take, op) ==
  CASE op # NoAccess             -> [st |-> "req", op |-> op]
    [] pick = "host"             -> [host EXCEPT !.st = "sc"]
    [] host.st = "sc" /\ take    -> HostReset
    [] OTHER                     -> host

\* The counter runs one cycle too long.
RstNext_Overrun == IF sc.sysRst THEN [out |-> TRUE, count |-> 0]
                   ELSE [out   |-> rst.count <= RESET_CYCLES,
                         count |-> IF rst.count <= RESET_CYCLES THEN rst.count + 1
                                   ELSE rst.count]

RstNext == IF sc.sysRst THEN [out |-> TRUE, count |-> 0]
           ELSE [out   |-> rst.count < RESET_CYCLES,
                 count |-> IF rst.count < RESET_CYCLES THEN rst.count + 1
                           ELSE rst.count]

(***************************************************************************)
(* The inputs of an edge.  One that nothing reads is low.                  *)
(***************************************************************************)
Choice(asked) == IF asked THEN BOOLEAN ELSE {FALSE}

Inputs ==
  [irq     : Choice(cpu.mie),
   decoded : IF cpu.state = "S_DECODE" THEN Instr ELSE {None},
   unit    : Choice(cpu.state \in {"S_EXECUTE", "S_ATOMIC_RMW"} /\ ~cpu.done),
   to      : IF \E irq \in Choice(cpu.mie) : AFire(irq) THEN Targets ELSE {"sys"},
   issue   : Choice(mux.req # Empty /\ mem.st = "idle"),
   answer  : Choice(mem.st = "busy" /\ mem.req.to \notin ScOps),
   pick    : IF ScReady THEN Waiting \cup {NoAccess} ELSE {NoAccess},
   take    : Choice(sc.resp),
   ext     : ExtBoot,
   op      : IF host.st = "idle" /\ ~rst.out THEN HostOps \cup {NoAccess}
             ELSE {NoAccess}]

Init == /\ cpu = CpuReset /\ mux = MuxReset /\ sc = ScReset
        /\ mem = MemReset /\ host = HostReset
        /\ rst = [out |-> TRUE, count |-> 0]
        /\ exiting = FALSE /\ wrote = FALSE

Edge(in) ==
  LET afire  == AFire(in.irq)
      issued == in.issue
      op     == AccessOf(in.pick) IN
  /\ CpuClock(CpuRst, in.irq, sc.reqHalt, sc.boot, afire, DFire, mux.resp,
              in.decoded, in.unit)
  /\ MuxClock(rst.out, afire, Request(in.to), issued, Answer, DFire)
  /\ ScClock(rst.out, op, in.take, in.ext, CpuHalted, CpuBooting)
  /\ mem' = IF rst.out THEN MemReset
            ELSE MemNext(issued, in.pick, in.answer, in.take)
  /\ host' = IF rst.out THEN HostReset ELSE HostNext(in.pick, in.take, in.op)
  /\ rst' = RstNext
  /\ exiting' = (~CpuRst /\ (exiting \/ (DFire /\ mux.resp.to = "halt")))
  /\ wrote' = (/\ cpu.state # "S_DECODE"
               /\ wrote \/ (afire /\ cpu.state \in {"S_MEM_WRITE", "S_ATOMIC_RMW"}))

Clock == \E in \in Inputs : Edge(in)

Spec == Init /\ [][Clock]_vars

\* An edge at which whatever is asked for is delivered: the buses accept and
\* answer, the ALU has its result, the controller is reached.  The host need
\* not ask for anything.
Prompt(in) ==
  /\ in.op = NoAccess
  /\ in.unit   = (cpu.state \in {"S_EXECUTE", "S_ATOMIC_RMW"} /\ ~cpu.done)
  /\ in.issue  = (mux.req # Empty /\ mem.st = "idle")
  /\ in.answer = (mem.st = "busy" /\ mem.req.to \notin ScOps)
  /\ in.take   = sc.resp
  /\ ScReady /\ Waiting # {} => in.pick # NoAccess

\* No wait for a bus or a unit lasts for ever.
FairSpec == Spec /\ WF_vars(\E in \in Inputs : Prompt(in) /\ Edge(in))

(***************************************************************************)
(* Properties                                                              *)
(***************************************************************************)
Requests == [kind : {"S_FETCH", "S_MEM_READ", "S_MEM_WRITE", "S_ATOMIC_RMW"},
             host : BOOLEAN, to : CpuTargets, pc : {0, 1}] \cup {Empty}

TypeOK ==
  /\ cpu \in [state : DOMAIN Straight \cup
                {"S_BOOT", "S_FETCH", "S_REG_READ_WAIT", "S_EXECUTE", "S_MEM_ADDR",
                 "S_MEM_READ", "S_MEM_WRITE", "S_ATOMIC_RMW"},
              instr : Instr \cup {None}, pc : {0, 1}, inflight : BOOLEAN,
              staged : Requests, wfi : BOOLEAN, mie : BOOLEAN, mpie : BOOLEAN,
              done : BOOLEAN, completed : BOOLEAN]
  /\ mux \in [req : Requests, host : BOOLEAN, wait : BOOLEAN, resp : Requests]
  /\ sc \in [state : {"IDLE", "WAIT_HALT", "PULSE", "WAIT_BOOT"},
             reqHalt : BOOLEAN, haltPending : BOOLEAN, cpuRst : BOOLEAN,
             boot : BOOLEAN, sysPending : BOOLEAN, sysRst : BOOLEAN, resp : BOOLEAN]
  /\ mem \in [st : {"idle", "busy", "sc", "answer"}, req : Requests]
  /\ host \in [st : {"idle", "req", "sc"}, op : HostOps \cup {NoAccess}]
  /\ rst \in [out : BOOLEAN, count : 0 .. RESET_CYCLES]
  /\ exiting \in BOOLEAN /\ wrote \in BOOLEAN

\* The core never takes a response that belongs to another request: what it
\* takes was asked for in the state it is in, and a fetched word was fetched
\* for the present pc, whatever interrupts, halts and resets came between.  A
\* fetch that a halt overtook may still come back, and is dropped.
ResponseFits ==
  /\ DFire => \/ mux.resp.kind = cpu.state
              \/ CpuHalted /\ mux.resp.kind = "S_FETCH"
  /\ DFire /\ cpu.state = "S_FETCH" => mux.resp.pc = cpu.pc
  /\ cpu.state = "S_FETCH" /\ cpu.staged # NoWord =>
       cpu.staged.kind = "S_FETCH" /\ cpu.staged.pc = cpu.pc

\* A request in flight is in exactly one place: waiting to be issued, on the
\* bus, or answered.
OneOutstanding ==
  /\ ~(mux.req # Empty /\ (mux.wait \/ mux.resp # Empty))
  /\ ~(mux.wait /\ mux.resp # Empty)
  /\ cpu.inflight => ~MemAReady
  /\ mux.wait <=> mem.st # "idle"

\* An instruction completes once ("High for 1 cycle when instruction done",
\* cpu.sv:45), but for a store-conditional that stores, which completes in
\* S_MEM_WRITE and again in S_WRITEBACK.
CompleteOnce ==
  InstrComplete(DFire) /\ cpu.completed => cpu.instr = "sc" /\ cpu.state = "S_WRITEBACK"

\* The core, the mux and the bus agree on the one request under way, and on the
\* one instruction it belongs to (cpu.sv:953-1010, host_bus_mux.sv:69-150).
CoreInv == TypeOK /\ OneOutstanding /\ CompleteOnce

\* The reset pulse reaches the core only when it stands still, never in the
\* middle of an instruction (riscv_shared/src/bus.rs:239, "halts the CPU first").
ResetOnlyHalted == sc.cpuRst => CpuHalted

\* When the host learns that its CPU reset is done, the core is out of reset and
\* no halt request is left that would stop it again.
ResetLeavesBootable ==
  (host.st = "sc" /\ host.op = "cpu_reset" /\ sc.resp) =>
    ~CpuHalted /\ ~sc.reqHalt /\ ~sc.haltPending

\* A CPU reset takes the core from standing still to ready to boot.
ResetSafe == ResetOnlyHalted /\ ResetLeavesBootable

\* A program that has written its exit code to REG_HALT does nothing more: not
\* even a fetch leaves the core between the answer to the write and the halt.
ExitStops ==
  exiting => /\ cpu.state \in {"S_WRITEBACK", "S_FETCH", "S_HALT"}
             /\ ~cpu.inflight /\ mux.req = Empty

\* An instruction writes memory once.
StoreOnce ==
  [][ (cpu.state \in {"S_MEM_WRITE", "S_ATOMIC_RMW"} /\ mux.req = Empty
         /\ mux'.req # Empty) => ~wrote ]_vars

\* An access of the program is at the system controller or waits for it.
SelfAccess == mem.st \in {"busy", "sc"} /\ mem.req.to \in ScOps

\* A halt takes effect, and a CPU reset comes to its end, so that the system
\* controller answers again (docs/memory-map.md:249), unless the program waits
\* for the controller, which in turn waits for the core.
ControlServed ==
  /\ sc.haltPending ~> (CpuHalted \/ rst.out \/ SelfAccess)
  /\ (sc.state = "WAIT_HALT") ~> (sc.state = "IDLE" \/ SelfAccess)

\* A core that is told to boot executes instructions, unless it is halted or
\* reset again ("Write boot address to start CPU", docs/memory-map.md:235).
BootRuns == (CpuBooting /\ sc.boot /\ ~sc.reqHalt /\ ~CpuRst)
              ~> (cpu.state = "S_DECODE" \/ CpuHalted \/ CpuRst)
=============================================================================
