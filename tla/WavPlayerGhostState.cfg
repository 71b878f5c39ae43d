\* One caller: a pause races with the end of the file.
SPECIFICATION Spec
CONSTANTS
  lcd_thr = lcd_thr
  tshell = tshell
  songA = songA
  songB = songB
  Null = Null
  Callers <- OneCaller
  Files <- OneFile
  Volumes <- SomeVolumes
  Ops <- OnlyCommands
  MqSize <- MqCapacity
INVARIANT StateMeansOpen
CHECK_DEADLOCK FALSE
