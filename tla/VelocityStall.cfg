CONSTANTS
  Viewer = {v1}
  Loop = Loop
SPECIFICATION LockSpec
CHECK_DEADLOCK FALSE
PROPERTIES CyclesGoOn
