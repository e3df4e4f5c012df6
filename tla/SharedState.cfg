SPECIFICATION SharedSpec
CONSTANTS
  c1 = c1
  c2 = c2
  f1 = f1
  f2 = f2
  s1 = s1
  alice = alice
  bob = bob
  None = None
  Nil = Nil
  Conn <- TwoConns
  Frame = {f1, f2}
  ConnOf <- OneEach
  Sid = {s1, s2}
  Subject = {alice, bob}
  Typists = {c1}
  SubjectOf <- AliceBob
  MaxSessions = 1
  OutputQueue = 1
  InputQueue = 1
  Timeout = 1
  Request = {r1, r2}
  Asked <- SettingsAndSwitch
  Value = {0, 1}
  Fresh <- Defaults
  FromJson <- OldAgent
  Env = "unset"
  MaxBackups = 1
  BackupBound = 2
  DelayBound = 1
  Absent = Absent
  Empty = Empty
  Cut = Cut
CHECK_DEADLOCK FALSE
SYMMETRY Symmetry
INVARIANTS CapRespected StoredMeansShell OwnAccountOnly SettingsTypeOK TornOnlyAtStart UndoPath LiveFollowsFile OffStaysOff
PROPERTIES OneRequestAtATime
