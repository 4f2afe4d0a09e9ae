-------------------------------- MODULE Cpu --------------------------------
(***************************************************************************)
(* rtl/common/cpu/cpu.sv: the multi-cycle control FSM of the RISC-V core   *)
(* and its one memory port.                                                *)
(*                                                                         *)
(* Kept: every state and transition, the memory-port bookkeeping           *)
(* (mem_req_inflight, the instruction staging register), halting, WFI,     *)
(* interrupts and traps as far as they steer the FSM.  Abstracted: the     *)
(* values computed.  An instruction is its class; the program counter is   *)
(* one bit that flips whenever pc moves on, enough to tell a word fetched  *)
(* for the present pc from one fetched for the pc before.                  *)
(***************************************************************************)

EXTENDS Naturals

VARIABLE cpu

None == "none"

NoWord == [kind |-> "none"]   \* the staging register is empty

\* What the decoder can make of an instruction word, by its path through the
\* FSM: "ei" and "di" are CSR accesses that set and clear mstatus.MIE alone, "trap" is
\* an illegal instruction, ECALL or EBREAK, "sc" is SC.W.
Instr == {"alu", "jump", "branch", "load", "store", "amo", "sc", "ei", "di",
          "fence", "mret", "wfi", "trap"}

CpuReset == [state |-> "S_BOOT", instr |-> None, pc |-> 0,
             inflight |-> FALSE, staged |-> NoWord,
             wfi |-> FALSE, mie |-> FALSE, mpie |-> FALSE,
             done |-> FALSE, completed |-> FALSE]

CpuHalted  == cpu.state = "S_HALT"
CpuBooting == cpu.state = "S_BOOT"

InterruptTaken(irq, reqHalt) == cpu.mie /\ irq /\ ~cpu.inflight /\ ~reqHalt

\* A fetch is started although the core is about to halt.
ImemReq_IgnoresHalt(irq, reqHalt) ==
  /\ cpu.state = "S_FETCH"
  /\ ~InterruptTaken(irq, reqHalt) /\ ~cpu.wfi
  /\ cpu.staged = NoWord

ImemReq(irq, reqHalt) ==
  /\ cpu.state = "S_FETCH"
  /\ ~InterruptTaken(irq, reqHalt) /\ ~cpu.wfi
  /\ ~reqHalt /\ cpu.staged = NoWord

DmemReq == \/ cpu.state \in {"S_MEM_READ", "S_MEM_WRITE"}
           \/ cpu.state = "S_ATOMIC_RMW" /\ cpu.done

MemAValid(irq, reqHalt) == (ImemReq(irq, reqHalt) \/ DmemReq) /\ ~cpu.inflight

MemDReady == cpu.inflight

(***************************************************************************)
(* The next state.  dfire is the D-channel handshake, dmem_ready_internal  *)
(* of the source.  The opcode default of S_REG_READ_WAIT, a halt, is left  *)
(* out: the decoder reports every opcode it does not list as invalid, and  *)
(* those trap.                                                             *)
(***************************************************************************)
Straight == [S_DECODE |-> "S_DECODE_WAIT", S_DECODE_WAIT |-> "S_REG_READ",
             S_REG_READ |-> "S_REG_READ_WAIT", S_WRITEBACK |-> "S_FETCH",
             S_BRANCH |-> "S_FETCH", S_CSR |-> "S_WRITEBACK",
             S_HALT |-> "S_HALT"]

AfterRegRead ==
  CASE cpu.instr \in {"alu", "jump", "branch"}         -> "S_EXECUTE"
    [] cpu.instr \in {"load", "store", "amo", "sc"}    -> "S_MEM_ADDR"
    [] cpu.instr \in {"ei", "di"}                      -> "S_CSR"
    [] cpu.instr \in {"fence", "mret", "wfi", "trap"}  -> "S_FETCH"

LeaveFetch(irq, reqHalt) ==
  IF reqHalt THEN "S_HALT"
  ELSE IF ~InterruptTaken(irq, reqHalt) /\ ~cpu.wfi /\ cpu.staged # NoWord
       THEN "S_DECODE" ELSE "S_FETCH"

LeaveRead(dfire) ==
  IF ~dfire THEN "S_MEM_READ"
  ELSE IF cpu.instr = "amo" THEN "S_ATOMIC_RMW" ELSE "S_WRITEBACK"

NextState(irq, reqHalt, boot, dfire) ==
  CASE cpu.state = "S_BOOT"  -> IF reqHalt THEN "S_HALT"
                                ELSE IF boot THEN "S_FETCH" ELSE "S_BOOT"
    [] cpu.state = "S_FETCH" -> LeaveFetch(irq, reqHalt)
    [] cpu.state = "S_REG_READ_WAIT" -> AfterRegRead
    [] cpu.state = "S_EXECUTE" -> IF cpu.instr = "branch" THEN "S_BRANCH"
                                  ELSE IF cpu.done THEN "S_WRITEBACK"
                                  ELSE "S_EXECUTE"
    [] cpu.state = "S_MEM_ADDR" -> IF cpu.instr \in {"load", "amo"}
                                   THEN "S_MEM_READ" ELSE "S_MEM_WRITE"
    [] cpu.state = "S_MEM_READ" -> LeaveRead(dfire)
    [] cpu.state = "S_MEM_WRITE" -> IF ~dfire THEN "S_MEM_WRITE"
                                    ELSE IF cpu.instr = "sc" THEN "S_WRITEBACK"
                                    ELSE "S_FETCH"
    [] cpu.state = "S_ATOMIC_RMW" -> IF cpu.done /\ dfire THEN "S_WRITEBACK"
                                     ELSE "S_ATOMIC_RMW"
    [] OTHER -> Straight[cpu.state]

(***************************************************************************)
(* Output signals of the FSM that change state.                            *)
(***************************************************************************)
IrWrite(irq, reqHalt) == /\ cpu.state = "S_FETCH"
                         /\ ~InterruptTaken(irq, reqHalt) /\ ~cpu.wfi
                         /\ cpu.staged # NoWord

InterruptEntry(irq, reqHalt) ==
  cpu.state = "S_FETCH" /\ InterruptTaken(irq, reqHalt)

TrapEntry(irq, reqHalt) ==
  \/ InterruptEntry(irq, reqHalt)
  \/ cpu.state = "S_REG_READ_WAIT" /\ cpu.instr = "trap"

TrapReturn == cpu.state = "S_REG_READ_WAIT" /\ cpu.instr = "mret"

\* Wrong variant: an AMO completes with its store and again with its writeback.
InstrComplete_Rmw(dfire) ==
  \/ cpu.state = "S_REG_READ_WAIT" /\ cpu.instr \in {"fence", "mret", "wfi"}
  \/ cpu.state \in {"S_MEM_WRITE", "S_ATOMIC_RMW"} /\ dfire
  \/ cpu.state \in {"S_WRITEBACK", "S_BRANCH"}

InstrComplete(dfire) ==
  \/ cpu.state = "S_REG_READ_WAIT" /\ cpu.instr \in {"fence", "mret", "wfi"}
  \/ cpu.state = "S_MEM_WRITE" /\ dfire
  \/ cpu.state \in {"S_WRITEBACK", "S_BRANCH"}

\* pc moves on: at boot, at a trap, and when an instruction completes.  SC.W
\* writes the same successor twice, in S_MEM_WRITE and in S_WRITEBACK.
PcMoves(irq, reqHalt, boot, dfire) ==
  \/ CpuBooting /\ boot /\ ~reqHalt
  \/ TrapEntry(irq, reqHalt)
  \/ InstrComplete(dfire) /\ ~(cpu.state = "S_WRITEBACK" /\ cpu.instr = "sc")

\* An interrupt leaves a word fetched for the interrupted pc in the staging
\* register.
Invalidate_SyncOnly(irq, reqHalt) ==
  \/ cpu.state = "S_REG_READ_WAIT" /\ cpu.instr \in {"trap", "mret"}
  \/ cpu.state = "S_BRANCH"
  \/ cpu.state = "S_WRITEBACK" /\ cpu.instr = "jump"

Invalidate(irq, reqHalt) ==
  \/ TrapEntry(irq, reqHalt) \/ TrapReturn
  \/ cpu.state = "S_BRANCH"
  \/ cpu.state = "S_WRITEBACK" /\ cpu.instr = "jump"

StagedNext(irq, reqHalt, dfire, word) ==
  IF cpu.state = "S_FETCH" /\ dfire THEN word
  ELSE IF IrWrite(irq, reqHalt) \/ Invalidate(irq, reqHalt) THEN NoWord
  ELSE cpu.staged

\* The result is offered for one cycle only.
DoneNext_Pulse(next, unit) ==
  next = cpu.state /\ next \in {"S_EXECUTE", "S_ATOMIC_RMW"} /\ unit

\* alu_req_sent && alu_out_valid: a result stays until the state is left.
DoneNext(next, unit) ==
  /\ next = cpu.state /\ next \in {"S_EXECUTE", "S_ATOMIC_RMW"}
  /\ cpu.done \/ unit

(***************************************************************************)
(* One clock edge.  afire: the A-channel handshake; word: the response;    *)
(* decoded: what the decoder makes of the instruction; unit: the ALU or    *)
(* FPU delivers its result.  The instruction class is forgotten when its   *)
(* instruction is over, where nothing reads it.                            *)
(***************************************************************************)
CpuNext(irq, reqHalt, boot, afire, dfire, word, decoded, unit) ==
  LET next == NextState(irq, reqHalt, boot, dfire) IN
  [state     |-> next,
   instr     |-> IF cpu.state = "S_DECODE" THEN decoded
                 ELSE IF next \in {"S_FETCH", "S_HALT"} THEN None
                 ELSE cpu.instr,
   pc        |-> IF PcMoves(irq, reqHalt, boot, dfire) THEN 1 - cpu.pc ELSE cpu.pc,
   inflight  |-> (cpu.inflight \/ afire) /\ ~dfire,
   staged    |-> StagedNext(irq, reqHalt, dfire, word),
   wfi       |-> /\ ~(InterruptTaken(irq, reqHalt) \/ reqHalt)
                 /\ cpu.wfi \/ (cpu.state = "S_REG_READ_WAIT" /\ cpu.instr = "wfi"),
   mie       |-> IF TrapEntry(irq, reqHalt) THEN FALSE
                 ELSE IF TrapReturn THEN cpu.mpie
                 ELSE IF cpu.state = "S_CSR" THEN cpu.instr = "ei"
                 ELSE cpu.mie,
   mpie      |-> IF TrapEntry(irq, reqHalt) THEN cpu.mie ELSE cpu.mpie \/ TrapReturn,
   done      |-> DoneNext(next, unit),
   completed |-> IF IrWrite(irq, reqHalt) THEN FALSE
                 ELSE cpu.completed \/ InstrComplete(dfire)]

CpuClock(rst, irq, reqHalt, boot, afire, dfire, word, decoded, unit) ==
  cpu' = IF rst THEN CpuReset
         ELSE CpuNext(irq, reqHalt, boot, afire, dfire, word, decoded, unit)
=============================================================================
