SPECIFICATION MCSpec
CONSTANTS
  NUM_MASTERS = 3
  NUM_SLAVES = 2
  Data = {0, 1, 2, 3, 4}
  Words <- MCWords
  CpuWords = {4}
  CpuRequest <- MCCpuRequest
  HostRequest <- MCHostRequest
  ADDR_MOD = 8
  MAX_LEN = 3
INVARIANT BusInv
INVARIANT ResponseRouted
INVARIANT LinkInv
INVARIANT BurstAccess
INVARIANT ResponseStream
PROPERTY Served
PROPERTY Answered
