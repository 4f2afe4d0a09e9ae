--------------------------- MODULE MCClockCrossing ---------------------------
(***************************************************************************)
(* Small instances of the two clock crossings: a handshake by itself, and  *)
(* the bus bridge with a handshake in each direction.  A behaviour is one  *)
(* of the two; the other's registers stay as they are after power-on.      *)
(***************************************************************************)
EXTENDS CdcHandshake, BusCdcBridge

VARIABLE crossing   \* "handshake" or "bridge"

ASSUME BridgeAssumption == LongReset

MCInit == /\ BridgeInit
          /\ \/ crossing = "handshake" /\ Init
             \/ crossing = "bridge" /\ src = SrcReset(CHOOSE x \in Data : TRUE)
                /\ dst = DstReset(src.data_hold) /\ taken = src.data_hold

MCNext == \/ crossing = "handshake" /\ Next /\ UNCHANGED <<crossing, bridge_vars>>
          \/ crossing = "bridge" /\ BridgeNext /\ UNCHANGED <<crossing, vars>>

MCSpec == /\ MCInit /\ [][MCNext]_<<crossing, vars, bridge_vars>>
          /\ crossing = "handshake" => Fairness
          /\ crossing = "bridge" => BridgeFairness
=============================================================================
