------------------------- MODULE CpuSubsystemProofs -------------------------
(***************************************************************************)
(* The core, the mux, the system controller and the host agree on the one  *)
(* request of the core and on the one access of the controller that are    *)
(* under way, for any subset of targets and operations that is used, any   *)
(* length of a reset and any timing of the buses.                          *)
(***************************************************************************)
EXTENDS CpuSubsystem, TLAPS

States == DOMAIN Straight \cup
            {"S_BOOT", "S_FETCH", "S_REG_READ_WAIT", "S_EXECUTE", "S_MEM_ADDR",
             "S_MEM_READ", "S_MEM_WRITE", "S_ATOMIC_RMW"}

Cores == [state : States, instr : Instr \cup {None}, pc : {0, 1}, inflight : BOOLEAN,
          staged : Requests, wfi : BOOLEAN, mie : BOOLEAN, mpie : BOOLEAN,
          done : BOOLEAN, completed : BOOLEAN]

(***************************************************************************)
(* The inductive invariant                                                 *)
(***************************************************************************)

\* The request under way, wherever it is, or Empty.
UnderWay == IF mux.req # Empty THEN mux.req ELSE IF mux.wait THEN mem.req ELSE mux.resp

\* What the core waits for, it asked for in the state it is in and at the
\* present pc.  A request nobody waits for is a fetch that a halt overtook and
\* a reset forgot.
RequestFits ==
  /\ mux.wait => mem.req # Empty
  /\ cpu.inflight =>
       /\ UnderWay # Empty
       /\ UnderWay.kind = IF CpuHalted THEN "S_FETCH" ELSE cpu.state
       /\ cpu.state = "S_FETCH" => UnderWay.pc = cpu.pc /\ cpu.staged = NoWord
       /\ cpu.state = "S_ATOMIC_RMW" => cpu.done
  /\ ~cpu.inflight /\ UnderWay # Empty => UnderWay.kind = "S_FETCH"
  /\ UnderWay # Empty /\ UnderWay.kind = "S_FETCH" => UnderWay.to \in {"sys", "host"}
  /\ UnderWay # Empty /\ UnderWay.kind = "S_MEM_READ" => UnderWay.to # "halt"

\* An instruction has been decoded where its class decides the path, and a
\* fetched word waits only until it is decoded or dropped.
InstrKnown ==
  /\ cpu.state \in {"S_DECODE_WAIT", "S_REG_READ", "S_REG_READ_WAIT"} => cpu.instr \in Instr
  /\ cpu.staged # NoWord => cpu.state \in {"S_FETCH", "S_HALT"}
  /\ cpu.state = "S_FETCH" /\ cpu.staged # NoWord =>
       cpu.staged.kind = "S_FETCH" /\ cpu.staged.pc = cpu.pc

\* completed and wrote are about the present instruction: up to its end they
\* are clear, but for the two steps in which a store-conditional completes and
\* for the wait for the answer to a store.
OncePerInstr ==
  /\ cpu.completed => \/ cpu.state \in {"S_FETCH", "S_HALT"}
                      \/ cpu.state = "S_WRITEBACK" /\ cpu.instr = "sc"
  /\ wrote => \/ cpu.state \in {"S_BOOT", "S_FETCH", "S_DECODE", "S_WRITEBACK", "S_HALT"}
              \/ cpu.state \in {"S_MEM_WRITE", "S_ATOMIC_RMW"} /\ cpu.inflight

\* The controller serves one access at a time, and only a CPU reset takes it
\* more than one cycle.
OneAccess ==
  /\ ~(mem.st = "sc" /\ host.st = "sc")
  /\ ScReady <=> mem.st # "sc" /\ host.st # "sc"
  /\ sc.resp => sc.state = "IDLE"
  /\ host.st # "idle" => host.op \in HostOps
  /\ mem.st = "sc" => mem.req.to \in ScOps
  /\ sc.state # "IDLE" => \/ mem.st = "sc" /\ mem.req.to = "cpu_reset"
                          \/ host.st = "sc" /\ host.op = "cpu_reset"

\* The phases of a CPU reset.
ResetPhases ==
  /\ sc.cpuRst => sc.state = "WAIT_BOOT"
  /\ sc.state = "PULSE" => CpuHalted /\ ~sc.haltPending
  /\ sc.state = "WAIT_BOOT" => ~sc.reqHalt /\ ~sc.haltPending
  /\ sc.state = "WAIT_BOOT" => IF sc.cpuRst THEN CpuHalted ELSE CpuBooting

\* The answer to a halt, and an exit, come when the request to halt is up.
HaltStands ==
  /\ mem.st = "sc" /\ mem.req.to = "halt" => sc.haltPending
  /\ mem.st = "answer" /\ mem.req.to = "halt" => sc.haltPending /\ sc.reqHalt
  /\ mux.resp # Empty /\ mux.resp.to = "halt" => sc.haltPending /\ sc.reqHalt
  /\ exiting /\ ~CpuHalted => sc.haltPending /\ sc.reqHalt

IInv == /\ TypeOK /\ OneOutstanding /\ RequestFits /\ InstrKnown /\ OncePerInstr
        /\ OneAccess /\ ResetPhases /\ ResetLeavesBootable /\ HaltStands /\ ExitStops

(***************************************************************************)
(* Steps                                                                   *)
(***************************************************************************)

\* What an edge may be given as inputs: a request goes only where the state of
\* the core lets it, and the controller is offered only what waits for it.
LEMMA InputFacts ==
  ASSUME TypeOK, NEW in \in Inputs
  PROVE  /\ in.irq \in BOOLEAN /\ in.unit \in BOOLEAN /\ in.issue \in BOOLEAN
         /\ in.answer \in BOOLEAN /\ in.take \in BOOLEAN /\ in.ext \in BOOLEAN
         /\ in.irq => cpu.mie
         /\ cpu.state = "S_DECODE" => in.decoded \in Instr
         /\ AFire(in.irq) => in.to \in Targets
         /\ in.issue => mux.req # Empty /\ mem.st = "idle"
         /\ in.answer => mem.st = "busy" /\ mem.req.to \notin ScOps
         /\ in.pick # NoAccess => ScReady /\ in.pick \in Waiting
         /\ in.take => sc.resp
         /\ in.op # NoAccess => in.op \in HostOps /\ host.st = "idle"
BY TargetsAssumption, ZenonT(60) DEF Inputs, Choice, TypeOK

\* The request under way does not change between the edge at which the core
\* makes it and the edge at which the core takes its response.
LEMMA RequestStep ==
  ASSUME TypeOK, OneOutstanding, RequestFits, NEW in \in Inputs, Edge(in), ~rst.out
  PROVE  /\ AFire(in.irq) =>
              /\ UnderWay = Empty /\ ~DFire /\ UnderWay' = Request(in.to)
              /\ mux'.req # Empty
         /\ DFire => UnderWay = mux.resp /\ mux.resp # Empty /\ UnderWay' = Empty
         /\ ~AFire(in.irq) /\ ~DFire => UnderWay' = UnderWay
         /\ ~(mux'.req # Empty /\ (mux'.wait \/ mux'.resp # Empty))
         /\ ~(mux'.wait /\ mux'.resp # Empty)
         /\ mux'.wait <=> mem'.st # "idle"
         /\ mux'.wait => mem'.req # Empty
BY InputFacts DEF TypeOK, OneOutstanding, RequestFits, Edge, AFire, DFire, UnderWay, MemAValid,
   MemDValid, MemDReady, MemAReady, MuxClock, MuxNext, MemNext, MemReset, Answer, DReady, Request,
   Empty, Waiting, ScOps, NoAccess

\* A system reset clears everything but wrote, which is about no instruction then.
LEMMA SystemResetStep ==
  ASSUME IInv, NEW in \in Inputs, Edge(in), rst.out
  PROVE  IInv'
<1>1. /\ cpu' = CpuReset /\ mux' = MuxReset /\ sc' = ScReset
      /\ mem' = MemReset /\ host' = HostReset /\ rst' = RstNext
      /\ exiting' = FALSE /\ wrote' \in BOOLEAN
  BY DEF Edge, CpuRst, CpuClock, MuxClock, ScClock
<1>2. TypeOK'
  <2>1. CpuReset \in Cores /\ NoWord \in Requests /\ Empty \in Requests
    BY DEF CpuReset, Cores, States, None, Requests, Empty, NoWord
  <2>2. rst' \in [out : BOOLEAN, count : 0 .. RESET_CYCLES]
    BY <1>1, TargetsAssumption DEF IInv, TypeOK, RstNext
  <2> QED
    BY <1>1, <2>1, <2>2, ZenonT(60) DEF TypeOK, Cores, States, MuxReset, ScReset, MemReset, HostReset
<1>3. UnderWay' = Empty
  BY <1>1 DEF UnderWay, MuxReset
<1>4. (OneOutstanding /\ RequestFits /\ InstrKnown /\ OncePerInstr)'
  BY <1>1, <1>3 DEF OneOutstanding, RequestFits, InstrKnown, OncePerInstr, CpuReset, MuxReset,
     MemReset, Empty, NoWord, MemAReady, CpuHalted
<1>5. (OneAccess /\ ResetPhases /\ ResetLeavesBootable /\ HaltStands /\ ExitStops)'
  BY <1>1 DEF OneAccess, ResetPhases, ResetLeavesBootable, HaltStands, ExitStops, ScReset,
     MuxReset, MemReset, HostReset, ScReady
<1> QED BY <1>2, <1>4, <1>5 DEF IInv

\* The core keeps its shape at every edge.
LEMMA CoreType ==
  ASSUME TypeOK, InstrKnown, OneOutstanding, NEW in \in Inputs, Edge(in), ~CpuRst
  PROVE  cpu' \in Cores
<1> DEFINE next == NextState(in.irq, sc.reqHalt, sc.boot, DFire)
<1>1. next \in States
  BY DEF States, TypeOK, InstrKnown, NextState, Straight, AfterRegRead, LeaveFetch, LeaveRead, Instr
<1>2. /\ (IF cpu.state = "S_DECODE" THEN in.decoded
          ELSE IF next \in {"S_FETCH", "S_HALT"} THEN None ELSE cpu.instr) \in Instr \cup {None}
      /\ StagedNext(in.irq, sc.reqHalt, DFire, mux.resp) \in Requests
  BY InputFacts DEF TypeOK, StagedNext, Requests, NoWord, Empty
<1>3. cpu' = CpuNext(in.irq, sc.reqHalt, sc.boot, AFire(in.irq), DFire, mux.resp, in.decoded, in.unit)
  BY DEF Edge, CpuClock
<1> HIDE DEF next
<1>4. (IF PcMoves(in.irq, sc.reqHalt, sc.boot, DFire) THEN 1 - cpu.pc ELSE cpu.pc) \in {0, 1}
  BY DEF TypeOK
<1>5. /\ DoneNext(next, in.unit) \in BOOLEAN
      /\ (IF TrapEntry(in.irq, sc.reqHalt) THEN FALSE
          ELSE IF TrapReturn THEN cpu.mpie
          ELSE IF cpu.state = "S_CSR" THEN cpu.instr = "ei"
          ELSE cpu.mie) \in BOOLEAN
      /\ (IF TrapEntry(in.irq, sc.reqHalt) THEN cpu.mie ELSE cpu.mpie \/ TrapReturn) \in BOOLEAN
      /\ (IF IrWrite(in.irq, sc.reqHalt) THEN FALSE
          ELSE cpu.completed \/ InstrComplete(DFire)) \in BOOLEAN
  BY DEF TypeOK, DoneNext
<1> QED
  BY <1>1, <1>2, <1>3, <1>4, <1>5, Zenon DEF Cores, CpuNext, next

\* Every register of the subsystem keeps its type.
LEMMA TypeStep ==
  ASSUME IInv, NEW in \in Inputs, Edge(in), ~rst.out
  PROVE  TypeOK'
<1>1. Empty \in Requests /\ CpuReset \in Cores
  BY DEF CpuReset, Cores, States, None, Requests, Empty, NoWord
<1>2. cpu' \in Cores
  <2>1. CASE CpuRst
    BY <1>1, <2>1 DEF Edge, CpuClock
  <2>2. CASE ~CpuRst
    BY <2>2, CoreType DEF IInv
  <2> QED BY <2>1, <2>2
<1>3. AFire(in.irq) => Request(in.to) \in Requests
  BY InputFacts DEF IInv, AFire, MemAValid, ImemReq, DmemReq, Targets, Request, Requests, TypeOK
<1>4. mux' \in [req : Requests, host : BOOLEAN, wait : BOOLEAN, resp : Requests]
  <2> DEFINE issued == in.issue
  <2>1. /\ (IF AFire(in.irq) THEN Request(in.to) ELSE IF issued THEN Empty ELSE mux.req) \in Requests
        /\ (IF issued THEN mux.req.host ELSE mux.host) \in BOOLEAN
        /\ (IF Answer # Empty THEN Answer ELSE IF DFire THEN Empty ELSE mux.resp) \in Requests
    BY <1>1, <1>3, InputFacts DEF IInv, TypeOK, Answer, Requests, Empty
  <2>2. mux' = MuxNext(AFire(in.irq), Request(in.to), issued, Answer, DFire)
    BY DEF Edge, MuxClock
  <2> QED BY <2>1, <2>2, Zenon DEF MuxNext
<1>5. sc' \in [state : {"IDLE", "WAIT_HALT", "PULSE", "WAIT_BOOT"},
               reqHalt : BOOLEAN, haltPending : BOOLEAN, cpuRst : BOOLEAN,
               boot : BOOLEAN, sysPending : BOOLEAN, sysRst : BOOLEAN, resp : BOOLEAN]
  <2>1. ResetState(AccessOf(in.pick), CpuHalted, CpuBooting) \in {"IDLE", "WAIT_HALT", "PULSE", "WAIT_BOOT"}
    BY DEF IInv, ResetState, TypeOK
  <2>2. sc' = ScNext(AccessOf(in.pick), in.take, in.ext, CpuHalted, CpuBooting)
    BY DEF Edge, ScClock
  <2>3. sc.sysPending \in BOOLEAN
    BY DEF IInv, TypeOK
  <2> QED BY <2>1, <2>2, <2>3, Zenon DEF ScNext, HaltPending, ReqHalt
<1>6. mem' \in [st : {"idle", "busy", "sc", "answer"}, req : Requests]
  BY <1>1 DEF IInv, Edge, MemNext, MemReset, TypeOK
<1>7. host' \in [st : {"idle", "req", "sc"}, op : HostOps \cup {NoAccess}]
  BY InputFacts DEF IInv, Edge, HostNext, HostReset, TypeOK
<1>8. rst' \in [out : BOOLEAN, count : 0 .. RESET_CYCLES]
  BY TargetsAssumption DEF IInv, Edge, RstNext, TypeOK
<1>9. exiting' \in BOOLEAN /\ wrote' \in BOOLEAN
  BY DEF Edge
<1> QED
  BY <1>2, <1>4, <1>5, <1>6, <1>7, <1>8, <1>9 DEF TypeOK, Cores, States

\* The core waits for at most one request, and for the one it has made.
LEMMA RequestInvStep ==
  ASSUME IInv, NEW in \in Inputs, Edge(in), ~rst.out
  PROVE  (OneOutstanding /\ RequestFits)'
<1> USE DEF IInv
<1>1. CASE sc.cpuRst
  <2>1. CpuHalted /\ cpu' = CpuReset
    BY <1>1 DEF ResetPhases, Edge, CpuClock, CpuRst
  <2>2. ~AFire(in.irq)
    BY <2>1 DEF AFire, MemAValid, ImemReq, DmemReq, CpuHalted
  <2>3. OneOutstanding'
    BY <2>1, RequestStep DEF OneOutstanding, CpuReset
  <2>4. UnderWay' # Empty => UnderWay'.kind = "S_FETCH" /\ UnderWay'.to \in {"sys", "host"}
    BY <2>1, <2>2, RequestStep DEF RequestFits
  <2>5. mux'.wait => mem'.req # Empty
    BY RequestStep
  <2> QED
    BY <2>1, <2>3, <2>4, <2>5 DEF RequestFits, CpuReset
<1>2. CASE ~sc.cpuRst
  <2>1. cpu' = CpuNext(in.irq, sc.reqHalt, sc.boot, AFire(in.irq), DFire, mux.resp, in.decoded,
                       in.unit)
    BY <1>2 DEF Edge, CpuClock, CpuRst
  <2>2. OneOutstanding'
    BY <2>1, RequestStep DEF OneOutstanding, MemAReady, UnderWay, CpuNext, RequestFits
  <2>3. RequestFits'
    <3>1. CASE AFire(in.irq)
      <4>1. /\ UnderWay' = Request(in.to) /\ ~DFire /\ in.to \in Targets
            /\ cpu'.inflight /\ cpu'.state = cpu.state /\ cpu'.pc = cpu.pc
            /\ cpu.state = "S_FETCH" => cpu'.staged = NoWord
            /\ cpu.state = "S_ATOMIC_RMW" => cpu'.done
            /\ cpu.state \in {"S_FETCH", "S_MEM_READ", "S_MEM_WRITE", "S_ATOMIC_RMW"}
        BY <2>1, <3>1, RequestStep, InputFacts DEF AFire, MemAValid, ImemReq, DmemReq, CpuNext,
           NextState, LeaveFetch, LeaveRead, PcMoves, CpuBooting, TrapEntry, InterruptEntry, InstrComplete,
           StagedNext, IrWrite, Invalidate, DoneNext, TypeOK
      <4>2. /\ UnderWay'.kind = cpu.state /\ UnderWay'.pc = cpu.pc /\ UnderWay'.to = in.to
            /\ cpu.state = "S_FETCH" => in.to \in {"sys", "host"}
            /\ cpu.state = "S_MEM_READ" => in.to # "halt"
        BY <4>1 DEF Request, Targets
      <4> QED
        BY <4>1, <4>2, RequestStep DEF RequestFits, CpuHalted, Empty
    <3>2. CASE DFire
      <4>1. ~cpu'.inflight
        BY <2>1, <3>2 DEF CpuNext
      <4>2. UnderWay' = Empty /\ (mux'.wait => mem'.req # Empty)
        BY <3>2, RequestStep
      <4> QED BY <4>1, <4>2 DEF RequestFits
    <3>3. CASE ~AFire(in.irq) /\ ~DFire
      <4>1. UnderWay' = UnderWay /\ (cpu'.inflight <=> cpu.inflight)
        BY <2>1, <3>3, RequestStep DEF CpuNext, TypeOK, Cores
      <4>2. cpu.inflight => cpu.state \in {"S_FETCH", "S_MEM_READ", "S_MEM_WRITE", "S_ATOMIC_RMW", "S_HALT"}
        BY DEF RequestFits, UnderWay, TypeOK, Requests, Empty, CpuHalted
      <4>3. cpu.inflight =>
              /\ cpu'.state \in {cpu.state, IF cpu.state = "S_FETCH" THEN "S_HALT" ELSE cpu.state}
              /\ cpu.state = "S_FETCH" => cpu'.pc = cpu.pc /\ cpu'.staged = NoWord
              /\ cpu.state = "S_ATOMIC_RMW" => cpu'.done
        <5> SUFFICES ASSUME cpu.inflight
                     PROVE  /\ cpu'.state \in {cpu.state, IF cpu.state = "S_FETCH" THEN "S_HALT"
                                                          ELSE cpu.state}
                            /\ cpu.state = "S_FETCH" => cpu'.pc = cpu.pc /\ cpu'.staged = NoWord
                            /\ cpu.state = "S_ATOMIC_RMW" => cpu'.done
          OBVIOUS
        <5>1. /\ ~InterruptTaken(in.irq, sc.reqHalt)
              /\ cpu.state = "S_FETCH" => cpu.staged = NoWord
              /\ cpu.state = "S_ATOMIC_RMW" => cpu.done
          BY DEF InterruptTaken, RequestFits
        <5>2. /\ cpu'.state = NextState(in.irq, sc.reqHalt, sc.boot, DFire)
              /\ cpu.state = "S_FETCH" => cpu'.pc = cpu.pc /\ cpu'.staged = NoWord
          BY <2>1, <3>3, <5>1 DEF CpuNext, PcMoves, CpuBooting, TrapEntry, InterruptEntry,
             InstrComplete, StagedNext
        <5>3. cpu'.state \in {cpu.state, IF cpu.state = "S_FETCH" THEN "S_HALT" ELSE cpu.state}
          BY <3>3, <4>2, <5>1, <5>2 DEF NextState, LeaveFetch, LeaveRead, Straight
        <5>4. cpu.state = "S_ATOMIC_RMW" => cpu'.done
          BY <2>1, <5>1, <5>2, <5>3 DEF CpuNext, DoneNext
        <5> QED BY <5>2, <5>3, <5>4
      <4>4. RequestFits /\ (mux'.wait => mem'.req # Empty)
        BY RequestStep
      <4> QED
        BY <4>1, <4>2, <4>3, <4>4 DEF RequestFits, CpuHalted
    <3> QED BY <3>1, <3>2, <3>3
  <2> QED BY <2>2, <2>3
<1> QED BY <1>1, <1>2

\* What the core holds of an instruction belongs to the present one.
LEMMA InstrStep ==
  ASSUME IInv, NEW in \in Inputs, Edge(in), ~rst.out
  PROVE  (InstrKnown /\ OncePerInstr)'
<1>1. CASE sc.cpuRst
  <2>1. cpu' = CpuReset
    BY <1>1 DEF Edge, CpuClock, CpuRst
  <2> QED
    BY <2>1 DEF InstrKnown, OncePerInstr, CpuReset
<1>2. CASE ~sc.cpuRst
  <2> DEFINE next == NextState(in.irq, sc.reqHalt, sc.boot, DFire)
  <2>1. cpu' = CpuNext(in.irq, sc.reqHalt, sc.boot, AFire(in.irq), DFire, mux.resp, in.decoded,
                       in.unit)
    BY <1>2 DEF Edge, CpuClock, CpuRst
  <2>2. /\ cpu.state \in States /\ cpu.instr \in Instr \cup {None}
        /\ cpu.state = "S_DECODE" => in.decoded \in Instr
    BY InputFacts DEF IInv, TypeOK, States
  <2>3. cpu'.state = next
    BY <2>1 DEF CpuNext
  <2>4. /\ next = "S_DECODE_WAIT" => cpu.state = "S_DECODE"
        /\ next = "S_REG_READ" => cpu.state = "S_DECODE_WAIT"
        /\ next = "S_REG_READ_WAIT" => cpu.state = "S_REG_READ"
        /\ next = "S_DECODE" => IrWrite(in.irq, sc.reqHalt)
        /\ IrWrite(in.irq, sc.reqHalt) => next \in {"S_DECODE", "S_HALT"}
        /\ cpu.state = "S_FETCH" => next \in {"S_FETCH", "S_DECODE", "S_HALT"}
        /\ cpu.state = "S_HALT" => next = "S_HALT"
        /\ cpu.state = "S_BOOT" => next \in {"S_BOOT", "S_FETCH", "S_HALT"}
        /\ cpu.state = "S_WRITEBACK" => next = "S_FETCH"
        /\ cpu.state = "S_DECODE" => next = "S_DECODE_WAIT"
        /\ next = "S_MEM_WRITE" => cpu.state = "S_MEM_ADDR" \/ (cpu.state = "S_MEM_WRITE" /\ ~DFire)
        /\ next = "S_ATOMIC_RMW" => \/ cpu.state = "S_MEM_READ"
                                    \/ cpu.state = "S_ATOMIC_RMW" /\ ~(cpu.done /\ DFire)
        /\ cpu.state = "S_MEM_WRITE" => next \in {"S_MEM_WRITE", "S_WRITEBACK", "S_FETCH"}
        /\ cpu.state = "S_ATOMIC_RMW" => next \in {"S_ATOMIC_RMW", "S_WRITEBACK"}
    BY <2>2 DEF IInv, InstrKnown, NextState, AfterRegRead, LeaveFetch, LeaveRead, Straight, States, Instr,
       IrWrite
  <2>5. InstrKnown'
    <3>1. cpu'.state \in {"S_DECODE_WAIT", "S_REG_READ", "S_REG_READ_WAIT"} => cpu'.instr \in Instr
      BY <2>1, <2>2, <2>3, <2>4 DEF IInv, InstrKnown, CpuNext
    <3>2. cpu'.staged = StagedNext(in.irq, sc.reqHalt, DFire, mux.resp)
      BY <2>1 DEF CpuNext
    <3>3. cpu'.staged # NoWord => cpu'.state \in {"S_FETCH", "S_HALT"}
      <4>1. cpu.state = "S_FETCH" /\ DFire => ~IrWrite(in.irq, sc.reqHalt)
        BY DEF IInv, RequestFits, DFire, MemDReady, IrWrite
      <4> QED
        BY <2>3, <2>4, <3>2, <4>1 DEF IInv, InstrKnown, StagedNext
    <3>4. cpu.state = "S_FETCH" /\ DFire =>
            mux.resp.kind = "S_FETCH" /\ mux.resp.pc = cpu.pc /\ cpu'.pc = cpu.pc
      BY <2>1, RequestStep DEF IInv, RequestFits, CpuHalted, DFire, MemDReady, CpuNext, PcMoves, CpuBooting,
         TrapEntry, InterruptEntry, InterruptTaken, InstrComplete
    <3>5. ASSUME cpu'.state = "S_FETCH", cpu'.staged # NoWord
          PROVE  cpu'.staged.kind = "S_FETCH" /\ cpu'.staged.pc = cpu'.pc
      <4>1. cpu.state \notin {"S_BOOT", "S_REG_READ_WAIT", "S_EXECUTE", "S_WRITEBACK", "S_BRANCH",
                              "S_MEM_WRITE", "S_ATOMIC_RMW"}
        BY <3>2, <3>5 DEF IInv, InstrKnown, StagedNext
      <4>2. cpu.state = "S_FETCH"
        BY <2>2, <2>3, <2>4, <3>2, <3>5 DEF IInv, InstrKnown, StagedNext
      <4>3. CASE ~DFire
        <5>1. cpu'.staged = cpu.staged /\ ~TrapEntry(in.irq, sc.reqHalt)
          BY <3>2, <3>5, <4>2, <4>3 DEF StagedNext, Invalidate
        <5>2. cpu'.pc = cpu.pc
          BY <2>1, <4>2, <5>1 DEF CpuNext, PcMoves, CpuBooting, InstrComplete
        <5> QED BY <3>5, <4>2, <5>1, <5>2 DEF IInv, InstrKnown
      <4>4. CASE DFire
        BY <3>2, <3>4, <4>2, <4>4 DEF StagedNext
      <4> QED BY <4>3, <4>4
    <3> QED BY <3>1, <3>3, <3>5 DEF InstrKnown
  <2>6. OncePerInstr'
    <3>1. cpu'.completed = IF IrWrite(in.irq, sc.reqHalt) THEN FALSE
                           ELSE cpu.completed \/ InstrComplete(DFire)
      BY <2>1 DEF CpuNext
    <3>2. cpu'.completed => \/ cpu'.state \in {"S_FETCH", "S_HALT"}
                            \/ cpu'.state = "S_WRITEBACK" /\ cpu'.instr = "sc"
      <4>1. CASE cpu.completed
        BY <2>3, <2>4, <3>1, <4>1 DEF IInv, OncePerInstr
      <4>2. CASE InstrComplete(DFire)
        BY <2>1, <2>2, <2>3, <4>2 DEF InstrComplete, CpuNext, NextState, AfterRegRead, Straight
      <4> QED BY <3>1, <4>1, <4>2
    <3>3. wrote' => cpu'.state \in {"S_BOOT", "S_FETCH", "S_DECODE", "S_WRITEBACK", "S_HALT",
                                    "S_MEM_WRITE", "S_ATOMIC_RMW"}
      BY <2>3, <2>4 DEF IInv, OncePerInstr, Edge
    <3>4. wrote' /\ cpu'.state \in {"S_MEM_WRITE", "S_ATOMIC_RMW"} => cpu'.inflight
      <4>1. wrote' => wrote \/ (AFire(in.irq) /\ cpu.state \in {"S_MEM_WRITE", "S_ATOMIC_RMW"})
        BY DEF Edge
      <4>2. AFire(in.irq) => ~DFire
        BY RequestStep DEF IInv
      <4>3. cpu.state = "S_ATOMIC_RMW" /\ DFire => cpu.done
        BY DEF IInv, RequestFits, DFire, MemDReady
      <4>4. cpu'.inflight <=> (cpu.inflight \/ AFire(in.irq)) /\ ~DFire
        BY <2>1 DEF CpuNext
      <4> QED
        BY <2>3, <2>4, <4>1, <4>2, <4>3, <4>4 DEF IInv, OncePerInstr
    <3> QED BY <3>2, <3>3, <3>4 DEF OncePerInstr
  <2> QED BY <2>5, <2>6
<1> QED BY <1>1, <1>2

\* The controller works on one access, and a CPU reset goes through its phases.
LEMMA ControllerStep ==
  ASSUME IInv, NEW in \in Inputs, Edge(in), ~rst.out
  PROVE  (OneAccess /\ ResetPhases /\ ResetLeavesBootable)'
<1> DEFINE op == AccessOf(in.pick)
<1>1. /\ sc' = ScNext(op, in.take, in.ext, CpuHalted, CpuBooting)
      /\ mem' = MemNext(in.issue, in.pick, in.answer, in.take)
      /\ host' = HostNext(in.pick, in.take, in.op)
  BY DEF Edge, ScClock
<1>2. \/ in.pick = NoAccess /\ op = NoAccess
      \/ in.pick = "cpu" /\ ScReady /\ mem.st = "busy" /\ op = mem.req.to /\ op \in ScOps
      \/ in.pick = "host" /\ ScReady /\ host.st = "req" /\ op = host.op /\ op \in ScOps
  BY InputFacts, TargetsAssumption DEF IInv, Waiting, AccessOf, OneAccess, NoAccess
<1>3. CpuHalted => ~CpuBooting
  BY DEF CpuHalted, CpuBooting
<1>4. sc'.state = ResetState(op, CpuHalted, CpuBooting) /\ sc'.cpuRst = (sc.state = "PULSE")
      /\ sc'.haltPending = HaltPending(op, CpuHalted) /\ sc'.reqHalt = ReqHalt(op)
      /\ sc'.resp = (\/ sc.resp /\ ~in.take
                     \/ op \notin {NoAccess, "cpu_reset"}
                     \/ sc.state = "WAIT_BOOT" /\ CpuBooting)
  BY <1>1 DEF ScNext
<1>5. OneAccess'
  BY <1>1, <1>2, <1>3, <1>4, InputFacts DEF IInv, TypeOK, OneAccess, ScReady, MemNext, MemReset, HostNext,
     HostReset, ResetState, ScOps, NoAccess, ResetPhases, RequestFits, UnderWay, OneOutstanding
<1>6. cpu' = IF sc.cpuRst THEN CpuReset
             ELSE CpuNext(in.irq, sc.reqHalt, sc.boot, AFire(in.irq), DFire, mux.resp, in.decoded,
                          in.unit)
  BY DEF Edge, CpuClock, CpuRst
<1>7. /\ ~sc.cpuRst /\ CpuHalted => CpuHalted'
      /\ sc.cpuRst => CpuBooting'
      /\ ~sc.reqHalt /\ ~CpuHalted => ~CpuHalted'
  BY <1>6 DEF CpuHalted, CpuBooting, CpuReset, CpuNext, NextState, Straight, LeaveFetch, LeaveRead,
     AfterRegRead, IInv, InstrKnown, TypeOK, Instr
<1>8. ResetPhases'
  BY <1>2, <1>3, <1>4, <1>7 DEF IInv, TypeOK, ResetPhases, ResetState, ReqHalt, HaltPending, ScReady, NoAccess
<1>9. ResetLeavesBootable'
  <2> SUFFICES ASSUME host'.st = "sc", host'.op = "cpu_reset", sc'.resp
               PROVE  ~CpuHalted' /\ ~sc'.reqHalt /\ ~sc'.haltPending
    BY DEF ResetLeavesBootable
  <2>0. host'.op = "cpu_reset" /\ sc'.resp
    OBVIOUS
  <2>1. host.st = "sc" \/ in.pick = "host"
    BY <1>1, InputFacts DEF IInv, TypeOK, HostNext, HostReset
  <2>2. in.pick # "host"
    <3> SUFFICES ASSUME in.pick = "host" PROVE FALSE
      OBVIOUS
    <3>1. ScReady /\ host.st = "req" /\ op = host.op
      BY <1>2 DEF NoAccess
    <3>2. host'.op = host.op
      BY <1>1, <3>1, InputFacts DEF IInv, TypeOK, HostNext
    <3> QED BY <1>4, <2>0, <3>1, <3>2 DEF ScReady
  <2>3. host.st = "sc" /\ host.op = "cpu_reset" /\ op = NoAccess
    BY <1>1, <1>2, <2>1, <2>2, InputFacts DEF IInv, TypeOK, OneAccess, HostNext, HostReset, NoAccess
  <2>4. CASE sc.resp
    BY <1>4, <1>7, <2>3, <2>4 DEF IInv, OneAccess, ResetLeavesBootable, ReqHalt, HaltPending, NoAccess
  <2>5. CASE sc.state = "WAIT_BOOT" /\ CpuBooting
    BY <1>3, <1>4, <1>7, <2>3, <2>5 DEF IInv, ResetPhases, ReqHalt, HaltPending, NoAccess
  <2> QED BY <1>4, <2>3, <2>4, <2>5
<1> QED BY <1>5, <1>8, <1>9

\* A write to REG_HALT that is under way is waited for, by a core that does not
\* stand still yet.
LEMMA HaltWaited ==
  ASSUME TypeOK, RequestFits, UnderWay # Empty, UnderWay.to = "halt"
  PROVE  cpu.inflight /\ ~CpuHalted /\ cpu.state \in {"S_MEM_WRITE", "S_ATOMIC_RMW"}
<1>1. UnderWay \in Requests
  BY DEF TypeOK, UnderWay
<1>2. UnderWay.kind \in {"S_MEM_WRITE", "S_ATOMIC_RMW"}
  BY <1>1 DEF Requests, RequestFits
<1> QED BY <1>2 DEF RequestFits

\* The request to halt stands until the core has halted.
LEMMA HaltStep ==
  ASSUME IInv, NEW in \in Inputs, Edge(in), ~rst.out
  PROVE  HaltStands'
<1> DEFINE op == AccessOf(in.pick)
<1>1. /\ sc'.haltPending = HaltPending(op, CpuHalted) /\ sc'.reqHalt = ReqHalt(op)
      /\ mem' = MemNext(in.issue, in.pick, in.answer, in.take)
      /\ mux' = MuxNext(AFire(in.irq), Request(in.to), in.issue, Answer, DFire)
  BY DEF Edge, ScClock, ScNext, MuxClock
<1>2. /\ mem.st # "idle" => UnderWay = mem.req /\ mem.req # Empty
      /\ mux.resp # Empty => UnderWay = mux.resp
  BY DEF IInv, OneOutstanding, RequestFits, UnderWay
<1>3. mem'.st = "sc" /\ mem'.req.to = "halt" => sc'.haltPending
  <2>1. CASE mem.st = "sc"
    <3>1. in.pick # "cpu" /\ mem'.st = "sc" => mem'.req = mem.req
      BY <1>1, <2>1, InputFacts DEF IInv, TypeOK, MemNext, MemReset, OneAccess, NoAccess
    <3>2. in.pick # "cpu"
      BY <2>1, InputFacts DEF IInv, OneAccess, NoAccess
    <3>3. mem.req.to = "halt" => sc.haltPending /\ ~CpuHalted
      BY <1>2, <2>1, HaltWaited DEF IInv, HaltStands
    <3> QED BY <1>1, <3>1, <3>2, <3>3 DEF HaltPending
  <2>2. CASE in.pick = "cpu"
    BY <1>1, <2>2, InputFacts DEF IInv, TypeOK, MemNext, AccessOf, HaltPending, Waiting, NoAccess
  <2>3. CASE mem.st # "sc" /\ in.pick # "cpu"
    BY <1>1, <2>3 DEF IInv, TypeOK, MemNext, MemReset
  <2> QED BY <2>1, <2>2, <2>3
<1>4. mem'.st = "answer" /\ mem'.req.to = "halt" => sc'.haltPending /\ sc'.reqHalt
  <2> SUFFICES ASSUME mem'.st = "answer", mem'.req.to = "halt"
               PROVE  sc'.haltPending /\ sc'.reqHalt
    OBVIOUS
  <2>1. mem.st \in {"sc", "answer"} /\ mem.req = mem'.req
    BY <1>1, InputFacts DEF IInv, TypeOK, MemNext, MemReset, ScOps
  <2>2. sc.haltPending /\ ~CpuHalted
    BY <1>2, <2>1, HaltWaited DEF IInv, HaltStands
  <2> QED BY <1>1, <2>2 DEF HaltPending, ReqHalt
<1>5. mux'.resp # Empty /\ mux'.resp.to = "halt" => sc'.haltPending /\ sc'.reqHalt
  <2> SUFFICES ASSUME mux'.resp # Empty, mux'.resp.to = "halt"
               PROVE  sc'.haltPending /\ sc'.reqHalt
    OBVIOUS
  <2>1. \/ mem.st = "answer" /\ mem.req = mux'.resp
        \/ mux.resp # Empty /\ mux.resp = mux'.resp
    BY <1>1 DEF MuxNext, Answer
  <2>2. sc.haltPending /\ ~CpuHalted
    BY <1>2, <2>1, HaltWaited DEF IInv, HaltStands
  <2> QED BY <1>1, <2>2 DEF HaltPending, ReqHalt
<1>6. exiting' /\ ~CpuHalted' => sc'.haltPending /\ sc'.reqHalt
  <2> SUFFICES ASSUME exiting', ~CpuHalted'
               PROVE  sc'.haltPending /\ sc'.reqHalt
    OBVIOUS
  <2>1. ~CpuRst /\ (exiting \/ (DFire /\ mux.resp.to = "halt"))
    BY DEF Edge
  <2>2. ~CpuHalted
    BY <2>1 DEF Edge, CpuClock, CpuNext, CpuHalted, NextState, Straight
  <2>3. sc.haltPending
    BY <2>1, <2>2 DEF IInv, HaltStands, DFire, MemDValid
  <2> QED BY <1>1, <2>2, <2>3 DEF HaltPending, ReqHalt
<1> QED BY <1>3, <1>4, <1>5, <1>6 DEF HaltStands

\* After its exit code is written, a program only finishes the writing
\* instruction, and nothing more is asked for.
LEMMA ExitStep ==
  ASSUME IInv, NEW in \in Inputs, Edge(in), ~rst.out
  PROVE  ExitStops'
<1> SUFFICES ASSUME exiting'
             PROVE  /\ cpu'.state \in {"S_WRITEBACK", "S_FETCH", "S_HALT"}
                    /\ ~cpu'.inflight /\ mux'.req = Empty
  BY DEF ExitStops
<1>1. ~CpuRst /\ (exiting \/ (DFire /\ mux.resp.to = "halt"))
  BY DEF Edge
<1>2. cpu' = CpuNext(in.irq, sc.reqHalt, sc.boot, AFire(in.irq), DFire, mux.resp, in.decoded, in.unit)
  BY <1>1 DEF Edge, CpuClock
<1>3. mux' = MuxNext(AFire(in.irq), Request(in.to), in.issue, Answer, DFire)
  BY DEF Edge, MuxClock
<1>4. CASE exiting
  <2>1. /\ cpu.state \in {"S_WRITEBACK", "S_FETCH", "S_HALT"} /\ ~cpu.inflight /\ mux.req = Empty
        /\ cpu.state # "S_HALT" => sc.reqHalt
    BY <1>4 DEF IInv, ExitStops, HaltStands, CpuHalted
  <2>2. ~AFire(in.irq)
    BY <2>1 DEF AFire, MemAValid, ImemReq, DmemReq
  <2>3. cpu'.state = NextState(in.irq, sc.reqHalt, sc.boot, DFire) /\ ~cpu'.inflight
    BY <1>2, <2>1, <2>2 DEF CpuNext
  <2>4. cpu'.state \in {"S_FETCH", "S_HALT"}
    BY <2>1, <2>3 DEF NextState, LeaveFetch, Straight
  <2>5. mux'.req = Empty
    BY <1>3, <2>1, <2>2 DEF MuxNext
  <2> QED BY <2>3, <2>4, <2>5
<1>5. CASE DFire /\ mux.resp.to = "halt"
  <2>1. UnderWay = mux.resp /\ mux.resp # Empty /\ ~AFire(in.irq) /\ mux.req = Empty
    BY <1>5, RequestStep DEF IInv, OneOutstanding
  <2>2. cpu.state \in {"S_MEM_WRITE", "S_ATOMIC_RMW"} /\ (cpu.state = "S_ATOMIC_RMW" => cpu.done)
    BY <1>5, <2>1, HaltWaited DEF IInv, RequestFits
  <2>3. cpu'.state = NextState(in.irq, sc.reqHalt, sc.boot, DFire) /\ ~cpu'.inflight
    BY <1>2, <1>5 DEF CpuNext
  <2>4. cpu'.state \in {"S_WRITEBACK", "S_FETCH"}
    BY <1>5, <2>2, <2>3 DEF NextState
  <2>5. mux'.req = Empty
    BY <1>3, <2>1 DEF MuxNext
  <2> QED BY <2>3, <2>4, <2>5
<1> QED BY <1>1, <1>4, <1>5

(***************************************************************************)
(* Theorems                                                                *)
(***************************************************************************)

\* The invariant holds after power-on and after every clock edge.
LEMMA Invariant == Spec => []IInv
<1>1. Init => IInv
  <2> SUFFICES ASSUME Init PROVE IInv
    OBVIOUS
  <2>1. CpuReset \in Cores /\ Empty \in Requests
    BY DEF CpuReset, Cores, States, None, Requests, Empty, NoWord
  <2>2. TypeOK
    <3>1. rst \in [out : BOOLEAN, count : 0 .. RESET_CYCLES]
      BY TargetsAssumption DEF Init
    <3> QED
      BY <2>1, <3>1, ZenonT(60) DEF Init, TypeOK, Cores, States, MuxReset, ScReset, MemReset, HostReset
  <2>3. UnderWay = Empty
    BY DEF Init, UnderWay, MuxReset
  <2>4. OneOutstanding /\ RequestFits /\ InstrKnown /\ OncePerInstr
    BY <2>3 DEF Init, OneOutstanding, RequestFits, InstrKnown, OncePerInstr, CpuReset, MuxReset,
       MemReset
  <2>5. OneAccess /\ ResetPhases /\ ResetLeavesBootable /\ HaltStands /\ ExitStops
    BY DEF Init, OneAccess, ResetPhases, ResetLeavesBootable, HaltStands, ExitStops, ScReset,
       MuxReset, MemReset, HostReset, ScReady
  <2> QED BY <2>2, <2>4, <2>5 DEF IInv
<1>2. IInv /\ [Clock]_vars => IInv'
  <2> SUFFICES ASSUME IInv, [Clock]_vars PROVE IInv'
    OBVIOUS
  <2>1. CASE UNCHANGED vars
    BY <2>1 DEF vars, IInv, TypeOK, OneOutstanding, RequestFits, UnderWay, InstrKnown, OncePerInstr,
       OneAccess, ResetPhases, ResetLeavesBootable, HaltStands, ExitStops, CpuHalted, CpuBooting,
       ScReady, MemAReady
  <2>2. ASSUME NEW in \in Inputs, Edge(in), ~rst.out PROVE IInv'
    BY <2>2, TypeStep, RequestInvStep, InstrStep, ControllerStep, HaltStep, ExitStep DEF IInv
  <2> QED BY <2>1, <2>2, SystemResetStep DEF Clock
<1> QED BY <1>1, <1>2, PTL DEF Spec

\* The core, the mux and the bus agree on the one request under way and on the
\* one instruction it belongs to, whatever resets come between (cpu.sv:953-1010,
\* host_bus_mux.sv:69-150).
THEOREM CoreSafe == Spec => []CoreInv
<1>1. IInv => CoreInv
  BY DEF IInv, CoreInv, CompleteOnce, OncePerInstr, InstrComplete
<1> QED BY <1>1, Invariant, PTL

\* The core never takes the response to another request than the one it waits for.
THEOREM ResponsesFit == Spec => []ResponseFits
<1>1. IInv => ResponseFits
  BY DEF IInv, ResponseFits, RequestFits, InstrKnown, UnderWay, OneOutstanding, DFire, MemDValid,
     MemDReady, CpuHalted
<1> QED BY <1>1, Invariant, PTL

\* A CPU reset takes the core from standing still to ready to boot.
THEOREM ResetIsSafe == Spec => []ResetSafe
<1>1. IInv => ResetSafe
  BY DEF IInv, ResetSafe, ResetOnlyHalted, ResetPhases
<1> QED BY <1>1, Invariant, PTL

\* A program that has written its exit code does nothing more.
THEOREM ExitIsFinal == Spec => []ExitStops
<1>1. IInv => ExitStops
  BY DEF IInv
<1> QED BY <1>1, Invariant, PTL

\* An instruction writes memory once, whatever interrupts, halts and waits it meets.
THEOREM StoresOnce == Spec => StoreOnce
<1>1. IInv /\ [Clock]_vars =>
        [(cpu.state \in {"S_MEM_WRITE", "S_ATOMIC_RMW"} /\ mux.req = Empty
            /\ mux'.req # Empty) => ~wrote]_vars
  <2> SUFFICES ASSUME IInv, NEW in \in Inputs, Edge(in),
                      cpu.state \in {"S_MEM_WRITE", "S_ATOMIC_RMW"}, mux.req = Empty, mux'.req # Empty
               PROVE  ~wrote
    BY DEF Clock
  <2>1. AFire(in.irq)
    BY DEF Edge, MuxClock, MuxReset, MuxNext
  <2>2. ~cpu.inflight
    BY <2>1 DEF AFire, MemAValid
  <2> QED BY <2>2 DEF IInv, OncePerInstr
<1> QED BY <1>1, Invariant, PTL DEF Spec, StoreOnce
=============================================================================
