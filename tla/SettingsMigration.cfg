SPECIFICATION ConfigSpec
CONSTANTS
  Request = {r1, r2}
  Asked <- SettingsAndSwitch
  Value = {0, 1}
  Fresh <- Defaults
  FromJson <- OldAgent
  Env = "unset"
  MaxBackups = 1
  BackupBound = 2
  DelayBound = 1
  Absent = Absent
  Empty = Empty
  Cut = Cut
  Nil = Nil
SYMMETRY RequestSymmetry
CHECK_DEADLOCK FALSE
INVARIANTS MigrationKeepsSettings
