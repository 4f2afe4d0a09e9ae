--------------------------- MODULE MCCpuSubsystem ---------------------------
(***************************************************************************)
(* Instances of CpuSubsystem: which part of the machine the program uses.  *)
(***************************************************************************)
EXTENDS CpuSubsystem
=============================================================================
