\* Two alarms, set to times that never wrap.
SPECIFICATION FairSpec
CONSTANTS
  Alarm = {galarm, other}
  SchedAlarm = galarm
  Modulus = 32
  Tick = 12
  RelTimes = {1, 3}
  Removable = {other}
  End = End
  Null = Null
INVARIANTS
  AlarmKept
PROPERTY TimeoutReturns
CHECK_DEADLOCK FALSE
