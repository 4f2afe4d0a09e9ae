SPECIFICATION Spec
CONSTANTS LANES = 2 WORDS = 1 Byte = {0,1} REFRESH_INTERVAL = 20 WAIT = 2 STAGES = 2
INVARIANT ReadsLatest
