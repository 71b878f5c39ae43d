\* Two callers: one re-initialises the completion the other waits on.
SPECIFICATION FairSpec
CONSTANTS
  lcd_thr = lcd_thr
  tshell = tshell
  songA = songA
  songB = songB
  Null = Null
  Callers <- TwoCallers
  Files <- OneFile
  Volumes <- SomeVolumes
  Ops <- OnlyCommands
  MqSize <- MqCapacity
PROPERTY CallReturns
CHECK_DEADLOCK FALSE
