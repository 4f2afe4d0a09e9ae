CONSTANTS
  CpuTargets = {"sys"}
  HostOps = {"boot", "cpu_reset"}
  ExtBoot = {FALSE}
  RESET_CYCLES = 1
SPECIFICATION FairSpec
PROPERTY BootRuns
