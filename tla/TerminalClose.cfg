SPECIFICATION FairSpec
CONSTANTS
  c1 = c1
  c2 = c2
  f1 = f1
  f2 = f2
  s1 = s1
  alice = alice
  None = None
  Conn <- TwoConns
  Frame = {f1, f2}
  ConnOf <- OneEach
  Sid = {s1}
  Subject = {alice}
  Typists = {c2}
  SubjectOf <- AllAlice
  MaxSessions = 1
  OutputQueue = 1
  InputQueue = 1
  Timeout = 1
CHECK_DEADLOCK FALSE
PROPERTIES CloseEndsShell
