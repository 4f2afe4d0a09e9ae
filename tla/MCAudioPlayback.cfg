SPECIFICATION PlaybackSpec
CONSTANTS
  Data = {0, 1}
  SAMPLES = 2
  DEPTH = 2
  SAMPLE_WIDTH = 1
  NUM_SOURCES = 1
  AUDIO_SOURCE = 1
  SYNC_STAGES = 1
  MAX_FILL = 1
INVARIANT FifoInv
INVARIANT PlaybackInv
PROPERTY IsChannel
PROPERTY Offered
PROPERTY Refilled
