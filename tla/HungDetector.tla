----------------------------- MODULE HungDetector -----------------------------
(***************************************************************************)
(* device-runtime/src/sim/hung_detector.rs as the simulator uses it        *)
(* (sim_core.rs, step_cycle and reset): every cycle in which the core is   *)
(* neither booting nor halted is checked, for an instruction that takes    *)
(* too long and for a program counter that does not move.  A report ends   *)
(* the simulator.                                                          *)
(***************************************************************************)
EXTENDS Integers

CONSTANTS MAX_CYCLES_PER_INSTRUCTION,
          PC_STUCK_THRESHOLD,
          PCS,           \* program counters
          LAST_CYCLE     \* where a behaviour is cut off

VARIABLES core,          \* what the core does; how long the instruction at pc has taken so
                         \* far, and how often in a row the one at last has completed
          cycle_count,
          detector,
          report         \* what step_cycle has returned

vars == <<core, cycle_count, detector, report>>

\* No program counter; the pc_history is only there to be shown.
NoPc == -1
New == [last_pc |-> NoPc, pc_stuck_count |-> 0, tracked |-> FALSE, start_cycle |-> 0]

\* The repetitions of a program counter that have completed, this one included.
PcStuckCount(d, pc) == IF d.last_pc = pc THEN d.pc_stuck_count + 1 ELSE 1

\* check_pc_loop; when it reports a hang, last_pc is the same already.
CheckPcLoop(d, pc) == [d EXCEPT !.pc_stuck_count = PcStuckCount(d, pc), !.last_pc = pc]

\* check_cycle up to its two tests: what it has recorded, and whether an
\* instruction was being tracked before.
Completed(d, pc, complete, now) ==
  IF complete THEN [CheckPcLoop(d, pc) EXCEPT !.tracked = FALSE, !.start_cycle = now] ELSE d

\* check_cycle: what it returns and what it leaves behind.
CheckCycle(d, pc, complete, now) ==
  LET c == Completed(d, pc, complete, now)
  IN  IF complete /\ c.pc_stuck_count >= PC_STUCK_THRESHOLD THEN <<"PcStuck", c>>
      ELSE IF ~c.tracked THEN <<"ok", [c EXCEPT !.tracked = TRUE, !.start_cycle = now]>>
      ELSE IF now - c.start_cycle > MAX_CYCLES_PER_INSTRUCTION THEN <<"LongInstruction", c>>
      ELSE <<"ok", c>>

Init == /\ core = [state |-> "booting", pc |-> NoPc, last |-> NoPc, age |-> 0, repeats |-> 0]
        /\ cycle_count = 0 /\ detector = New /\ report = "ok"

Tick == cycle_count < LAST_CYCLE /\ report = "ok" /\ cycle_count' = cycle_count + 1

\* step_cycle with the core at work: the instruction in hand goes on, or has
\* completed and the next one begins.
Cycle(complete, next) ==
  /\ Tick /\ core.state = "running"
  /\ LET checked == CheckCycle(detector, core.pc, complete, cycle_count + 1)
     IN  report' = checked[1] /\ detector' = checked[2]
  /\ core' = IF complete THEN [core EXCEPT !.pc = next, !.last = core.pc, !.age = 0,
                                           !.repeats = IF core.last # core.pc THEN 1
                                                       ELSE IF @ < PC_STUCK_THRESHOLD THEN @ + 1 ELSE @]
             ELSE [core EXCEPT !.age = @ + 1]

\* step_cycle with the core booting or halted: no check.
IdleCycle == Tick /\ core.state # "running" /\ UNCHANGED <<core, detector, report>>

\* The write of the system controller that resets the core: the shell's reset
\* and the viewer's reload.  The simulator is not involved.
ResetCpu == /\ report = "ok" /\ core.state # "booting"
            /\ core' = [core EXCEPT !.state = "booting"]
            /\ UNCHANGED <<cycle_count, detector, report>>

Boot(entry) == /\ report = "ok" /\ core.state = "booting"
               /\ core' = [core EXCEPT !.state = "running", !.pc = entry, !.age = -1]
               /\ UNCHANGED <<cycle_count, detector, report>>

Halt == /\ report = "ok" /\ core.state = "running"
        /\ core' = [core EXCEPT !.state = "halted"]
        /\ UNCHANGED <<cycle_count, detector, report>>

\* Simulator::reset.
SystemReset == report = "ok" /\ core' = [core EXCEPT !.state = "booting"]
               /\ cycle_count' = 0 /\ detector' = New /\ UNCHANGED report

Next == \/ \E complete \in BOOLEAN, next \in PCS : Cycle(complete, next)
        \/ IdleCycle \/ ResetCpu \/ Halt \/ SystemReset
        \/ \E entry \in PCS : Boot(entry)

Spec == Init /\ [][Next]_vars

\* A hang is reported for what the core really does: an instruction that "has
\* taken too many cycles to complete" since it began (hung_detector.rs:52), or a
\* PC that "hasn't changed for N consecutive instructions" (:44).
HangIsReal == /\ report = "LongInstruction" => core.age > MAX_CYCLES_PER_INSTRUCTION
              /\ report = "PcStuck" => core.repeats >= PC_STUCK_THRESHOLD
=============================================================================
