--------------------------- MODULE MCAudioPlayback ---------------------------
(***************************************************************************)
(* Instances of AudioPlayback for TLC.                                     *)
(***************************************************************************)
EXTENDS AudioPlayback
=============================================================================
