CONSTANTS
  Conn = {c1, c2, c3}
  Ticket = {t1, t2}
  Account = {u1, u2}
  Doors = {"tunnel", "terminal"}
  MaxLive = 1
  TTL = 1
  MaxConns = 1
  QueueBound = 2
  Rounds = 3
  ChunkBound = 3
  Req = {r1, r2}
  Ip = {i1}
  User = {n1}
  Unnamed = Unnamed
  Free = 1
  MaxDelay = 2
  EntryTTL = 3
  Prune = 1
  MaxFailures = 3
  Permits = 1
  Channel = 1
  PtyOut = 1
  PtyIn = 1
  Memory = {262144, 1048576, 6291456, 67108864}
  Explicit = {0, 1, 40}
  Unset = Unset
  PrintBound = 3
  TypeBound = 2
SPECIFICATION Spec
CHECK_DEADLOCK FALSE
INVARIANTS TypeOK NothingCutOff LimitsHold DoorsAgree
PROPERTIES Admits KeepaliveIsFair RelayEnds BlockLifts ShellEnds
