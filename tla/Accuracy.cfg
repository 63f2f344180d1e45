\* Three test pictures; videos too short, ending with a test picture, and long enough.
SPECIFICATION Spec
CONSTANTS
  AccTestFrames <- MCAccTestFrames
  VideoLengths = {4, 5, 6}
  MJPEG_OUT_BUF_NR = 2
  MAX_CMDS = 3
INVARIANTS TypeOK WholeUnlessCut
PROPERTIES TestEnds VideoLoops
