\* Two tasks on a counter that wraps at 4, started two ticks before a wrap of it.
CONSTANTS
  Task = {t1, t2}
  NoTask = NoTask
  Wrap = 4
  MaxDelta = 2
  Never = 99
  Delay = {1, 3}
  Start = {2}
  MaxNow = 5
SPECIFICATION FairSpec
CHECK_DEADLOCK FALSE
INVARIANTS
  TypeOK
  Armed
  SleepsSafely
PROPERTIES
  Resumes
