SPECIFICATION FairSpec
CONSTANTS
  BYTE = 4
  COUNT_FIELD = 4
  SIZE_FIELD = 4
  WINDOW = 2
  SampleLimit <- MCSampleLimit
  FRAME_TIME = 2
  COPY_SIZE = 4
  FRAMES = 3
  VIDEO_SHAPE <- MCVideoShape
  TOTAL_SAMPLES = 3
  BUFFER_SAMPLES = 2
  SINE_TABLE <- MCSineTable
  MESSAGE <- MCMessage
  INPUT <- MCInput
  MAX_VIDEO_FRAMES = 2
  MAX_AUDIO_CHUNKS = 2
  KIND = "sim"
  Run = {"video_pattern", "video_loop", "audio_pattern", "audio_loop", "sim_view", "dma_copy", "println", "echo"}
  MAX_RELOADS = 1
  Reloaded = {"video_pattern", "video_loop", "audio_pattern", "audio_loop", "dma_copy", "println", "echo"}
  Pulls = {1, 3}
INVARIANT FramesWhole
INVARIANT SoundInOrder
INVARIANT LastFrameShown
INVARIANT ConfigSettles
INVARIANT ProgramsSucceed
PROPERTY KeepsGoing
CHECK_DEADLOCK FALSE
