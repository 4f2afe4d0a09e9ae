SPECIFICATION Spec
CONSTANTS
  MAX_CYCLES_PER_INSTRUCTION = 3
  PC_STUCK_THRESHOLD = 3
  PCS = {0, 1}
  LAST_CYCLE = 12
INVARIANT HangIsReal
CHECK_DEADLOCK FALSE
