\* lcd_thr and tshell, two files, every call of the API.  The run allows
\* deadlock: two callers can wait for each other for ever (see
\* WavPlayerAckRace.cfg) and a failed assertion stops a caller.
SPECIFICATION Spec
CONSTANTS
  lcd_thr = lcd_thr
  tshell = tshell
  songA = songA
  songB = songB
  Null = Null
  Callers <- TwoCallers
  Files <- TwoFiles
  Volumes <- SomeVolumes
  Ops <- CommandsAndVolume
  MqSize <- MqCapacity
SYMMETRY Symmetry
INVARIANTS
  TypeOK
  HandshakeFresh
  UriIsPlaying
  UriNotFreedInUse
  CommandEffect
  StreamsBalanced
CHECK_DEADLOCK FALSE
PROPERTY ServiceSafe
