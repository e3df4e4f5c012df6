CONSTANTS
  Scenes = {"loop", "velocity", "quota", "commands", "rules", "sums", "script", "fields",
            "retention", "history", "startup"}
  Command = {a}
  Every = {0, 2, 3}
  Span = 6
  IdleAfter = 2
  None = None
  Horizon = 5
  NoData = NoData
  Rules = 2
  Push <- MCPush
  Times = 2
  Window = 2
  Writer = {w1, w2}
  Named <- MCNamed
  First = First
  Torn = Torn
  Gone = Gone
  Number = {0, 2, 80}
  Letter = {"%", "b", "k", "c", "K"}
  Reading = {0, 1, 20, 80, 2048}
  Unread = Unread
  Path <- MCPath
  Label <- MCLabel
  Device = {"/dev/sda1", "/dev/sdb1"}
  DiskBase <- MCDiskBase
  On <- MCOn
  Sizes = {0, 1, 2}
  MaxDisks = 2
  Nothing = Nothing
  Manifest <- MCManifest
  Off <- MCOff
  Dirs <- MCDirs
  Output <- MCOutput
  Spelled <- MCSpelled
  Hosts <- MCHosts
  Days <- MCDays
  DayLength = 2
  MaxPages = 3
  Schema = 1
  Share = 2
  Rounds = 2
  Enabled = {"log", "metrics"}
  Ticks = 3
  Minutes = {1, 2, 3}
  Least = 2
  Minute = 3
  Day = 5
  MAX_POINTS = 3
  Interval = 1
  Growth = {0, 2}
  Outcomes = {"stored", "lost", "old_schema"}
  LastSecond = 7
  Null = Null
  Process = {p1, p2}
  Generated = {"g1", "g2"}
  Password = {"w1", "w2"}
  Chosen <- MCChosen
  Absent = Absent
SPECIFICATION Spec
CHECK_DEADLOCK FALSE
INVARIANTS TypeOK LoopHolds QuotaHolds CommandsStand AlertsAsWritten FiguresHold RetentionHolds StartupHolds
