\* Two threads send commands of every kind to a module that answers late,
\* never, or between other lines.
SPECIFICATION FairSpec
CONSTANTS
  lcd_thr = lcd_thr
  sys_work = sys_work
  Null = Null
  Threads <- TwoThreads
  MaxTries = 1
INVARIANTS
  TypeOK
  RespOfOwner
  NoticesBounded
  OwnAnswer
PROPERTY CommandReturns
