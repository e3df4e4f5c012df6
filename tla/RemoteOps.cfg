CONSTANTS
  Name = {"a", "b", "l", "out"}
  Links <- MCLinks
  Outside = Outside
  Call = {r1, r2}
  ChunkLimit = 2
  StdinLen = 3
  PipeSize = 2
  MaxOutput = 3
  OutputBound = 4
  Dial = {d1, d2}
  HostKey = {k1, k2}
  NoKey = NoKey
  EraBound = 1
SPECIFICATION Spec
CHECK_DEADLOCK FALSE
INVARIANTS TypeOK FilesStand ExecAnswerIsWhole HostKeyStands
PROPERTIES ExecAlwaysAnswers
