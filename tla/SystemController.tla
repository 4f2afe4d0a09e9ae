-------------------------- MODULE SystemController --------------------------
(***************************************************************************)
(* rtl/common/peripherals/system_controller_peripheral.sv: boots, halts    *)
(* and resets the CPU on register writes, and requests a system reset.     *)
(*                                                                         *)
(* An access is the operation it stands for: "boot", "halt", "cpu_reset",  *)
(* "sys_reset", or "reg" for every other register and for reads.           *)
(***************************************************************************)

VARIABLE sc

NoAccess == "none"

ScOps == {"boot", "halt", "cpu_reset", "sys_reset", "reg"}

ScReset == [state |-> "IDLE", reqHalt |-> FALSE, haltPending |-> FALSE,
            cpuRst |-> FALSE, boot |-> FALSE, sysPending |-> FALSE,
            sysRst |-> FALSE, resp |-> FALSE]

ScReady == ~sc.resp /\ sc.state = "IDLE"

\* The reset pulse is sent without waiting for the CPU to halt.
ResetState_NoWait(op, halted, booting) ==
  CASE sc.state = "IDLE"      -> IF op = "cpu_reset" THEN "WAIT_HALT" ELSE "IDLE"
    [] sc.state = "WAIT_HALT" -> "PULSE"
    [] sc.state = "PULSE"     -> "WAIT_BOOT"
    [] sc.state = "WAIT_BOOT" -> IF booting THEN "IDLE" ELSE "WAIT_BOOT"

ResetState(op, halted, booting) ==
  CASE sc.state = "IDLE"      -> IF op = "cpu_reset" THEN "WAIT_HALT" ELSE "IDLE"
    [] sc.state = "WAIT_HALT" -> IF halted THEN "PULSE" ELSE "WAIT_HALT"
    [] sc.state = "PULSE"     -> "WAIT_BOOT"
    [] sc.state = "WAIT_BOOT" -> IF booting THEN "IDLE" ELSE "WAIT_BOOT"

\* The request to halt lasts one cycle only.
HaltPending_OneShot(op, halted) == op = "halt"

HaltPending(op, halted) == op = "halt" \/ (sc.haltPending /\ ~halted)

\* req_cpu_halt stays up until the CPU boots again.
ReqHalt_Sticky(op) == \/ sc.haltPending \/ op = "cpu_reset"
                      \/ sc.state \in {"WAIT_HALT", "PULSE", "WAIT_BOOT"}

\* The halt is requested for one cycle, not until the CPU has halted.
ReqHalt_Pulse(op) == sc.haltPending \/ op = "cpu_reset"

ReqHalt(op) == sc.haltPending \/ op = "cpu_reset" \/ sc.state = "WAIT_HALT"

(***************************************************************************)
(* One clock edge.  op: the access taken at this edge, or NoAccess; taken: *)
(* the response handshake; ext: ext_cpu_boot.                              *)
(***************************************************************************)
ScNext(op, taken, ext, halted, booting) ==
  [state       |-> ResetState(op, halted, booting),
   reqHalt     |-> ReqHalt(op),
   haltPending |-> HaltPending(op, halted),
   cpuRst      |-> sc.state = "PULSE",
   boot        |-> op = "boot" \/ ext,
   sysPending  |-> op = "sys_reset",
   sysRst      |-> sc.sysPending,
   resp        |-> \/ sc.resp /\ ~taken
                   \/ op \notin {NoAccess, "cpu_reset"}
                   \/ sc.state = "WAIT_BOOT" /\ booting]

ScClock(rst, op, taken, ext, halted, booting) ==
  sc' = IF rst THEN ScReset ELSE ScNext(op, taken, ext, halted, booting)
=============================================================================
