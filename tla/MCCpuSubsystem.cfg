CONSTANTS
  CpuTargets = {"sys", "host", "reg", "halt", "cpu_reset"}
  HostOps = {"boot", "halt", "cpu_reset", "sys_reset"}
  ExtBoot = {FALSE, TRUE}
  RESET_CYCLES = 1
SPECIFICATION FairSpec
INVARIANT CoreInv
INVARIANT ResponseFits
INVARIANT ResetSafe
INVARIANT ExitStops
PROPERTY StoreOnce
PROPERTY ControlServed
