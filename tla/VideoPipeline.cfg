\* The six threads of the program, two buffers, camera and test video.
SPECIFICATION Spec
CONSTANTS
  MJPEG_OUT_BUF_NR = 2
  TID_NR = 6
  face_detect_autostart = FALSE
  ClientCommands = {"RUN", "TEST_ACC"}
  MAX_FRAMES = 3
  MAX_CMDS = 1
INVARIANTS RingExclusive CountAgrees SentIntact BoxesFresh NamesEmbedded SettledSource
PROPERTIES FlushLeavesOne
