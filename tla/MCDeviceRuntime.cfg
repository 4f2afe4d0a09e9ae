SPECIFICATION FairSpec
CONSTANTS
  RTL_END = 16
  ADDR_END = 25
  MAX_BURST_BEATS = 2
  REGIONS <- MC_REGIONS
  SEGMENTS = 1
  BACKENDS = {"fpga", "sim"}
  COMMANDS = {"loadelf", "loadmem", "dumpmem", "memtest", "boot", "reset", "hard_reset", "reload",
              "read", "write", "disconnect"}
  BUDGETS <- MC_BUDGETS
INVARIANT HandlerInv
INVARIANT NeverUnsolicited
INVARIANT AlwaysRoom
INVARIANT InTimeAnswersOwn
INVARIANT CommandsAchieve
CHECK_DEADLOCK FALSE
PROPERTY InTimeServed
