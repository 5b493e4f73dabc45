CONSTANTS
  Seconds = 3
  Minutes = 2
  Hours = 2
  Days = 2
  Timers = {t}
  Periodics = {p}
  Conns = {c}
  Delays = {2, 4, 7, 13}
  MaxTick = 14
SPECIFICATION WheelSpec
INVARIANT WheelsSound
PROPERTY RunsInTime
CHECK_DEADLOCK FALSE
