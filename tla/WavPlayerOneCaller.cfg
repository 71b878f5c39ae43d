\* One caller, the four commands: every call returns and nothing deadlocks.
SPECIFICATION FairSpec
CONSTANTS
  lcd_thr = lcd_thr
  tshell = tshell
  songA = songA
  songB = songB
  Null = Null
  Callers <- OneCaller
  Files <- TwoFiles
  Volumes <- SomeVolumes
  Ops <- OnlyCommands
  MqSize <- MqCapacity
PROPERTIES
  StoppedReleases
  ServiceImplemented
