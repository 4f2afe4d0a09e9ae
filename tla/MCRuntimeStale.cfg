SPECIFICATION Spec
CONSTANTS
  RTL_END = 16
  ADDR_END = 25
  MAX_BURST_BEATS = 2
  REGIONS <- MC_REGIONS
  SEGMENTS = 1
  BACKENDS = {"fpga"}
  COMMANDS = {"read"}
  BUDGETS <- MC_BUDGETS
INVARIANT AnswersOwn
CHECK_DEADLOCK FALSE
