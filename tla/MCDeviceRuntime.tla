--------------------------- MODULE MCDeviceRuntime ---------------------------
(***************************************************************************)
(* The regions: a word on the target; a halfword, a word and a byte in the *)
(* host's bus; and one whose burst spans the border.                       *)
(***************************************************************************)
EXTENDS DeviceRuntime

MC_REGIONS == {[addr |-> 12, len |-> 4], [addr |-> 18, len |-> 7], [addr |-> 12, len |-> 8]}

MC_BUDGETS == {[commands |-> 2, faults |-> 0, cpu |-> 1],
               [commands |-> 2, faults |-> 1, cpu |-> 0],
               [commands |-> 1, faults |-> 1, cpu |-> 1]}
=============================================================================
