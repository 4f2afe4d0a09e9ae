SPECIFICATION MCSpec
CONSTANTS LANES = 2 WORDS = 2 STAGES = 2 Byte = {0,1} REFRESH_INTERVAL = 20 WAIT = 2
INVARIANT ReadsLatest
INVARIANT AnsweredIsWritten
INVARIANT ControlInv
PROPERTY RefreshedServed
