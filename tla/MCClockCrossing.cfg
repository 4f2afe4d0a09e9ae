SPECIFICATION MCSpec
CONSTANTS
  Data = {d1, d2, d3}
  SYNC_STAGES = 3
  Requests = {q1, q2}
  BRIDGE_STAGES = 2
  RESET_EDGES = 3
INVARIANT Inv
INVARIANT StableAtCapture
INVARIANT BridgeInv
PROPERTY IsChannel
PROPERTY Delivered
PROPERTY Served
