SPECIFICATION FairSpec
CONSTANTS
  BYTE = 4
  COUNT_FIELD = 4
  SIZE_FIELD = 4
  WINDOW = 2
  SampleLimit <- MCSampleLimit
  FRAME_TIME = 2
  COPY_SIZE = 4
  FRAMES = 3
  VIDEO_SHAPE <- MCVideoShape
  TOTAL_SAMPLES = 3
  BUFFER_SAMPLES = 2
  SINE_TABLE <- MCSineTable
  MESSAGE <- MCMessage
  INPUT <- MCInput
  MAX_VIDEO_FRAMES = 2
  MAX_AUDIO_CHUNKS = 2
  KIND = "fpga"
  Run = {"video_pattern"}
  MAX_RELOADS = 0
  Reloaded = {}
  Pulls = {1, 3}
PROPERTY KeepsGoing
CHECK_DEADLOCK FALSE
