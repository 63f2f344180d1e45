\* Two buffers, three threads (capture, detection, sender), both sources.
SPECIFICATION FairSpec
CONSTANTS
  MJPEG_OUT_BUF_NR = 2
  TID_NR = 3
  face_detect_autostart = FALSE
  ClientCommands = {"RUN", "TEST_RUN", "RESCAN"}
  MAX_FRAMES = 2
  MAX_CMDS = 1
INVARIANT TypeOK
PROPERTIES FlushTerminates FramesReturn ImplementsStream
