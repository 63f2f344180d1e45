\* One start of a mode at a time, two receivers, two clicks and one loss.
SPECIFICATION Spec
CONSTANTS
  Starters = {s1}
  Receivers = {r1, r2}
  None = None
  QueueLength = 1
  MaxClicks = 2
  MaxLosses = 1
INVARIANTS TypeOK OneModeRuns PicturesOfMode
 
\* The clicks are bounded.
CHECK_DEADLOCK FALSE
