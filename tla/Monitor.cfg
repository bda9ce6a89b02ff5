CONSTANTS
  t1 = t1
  t2 = t2
  t3 = t3
  t4 = t4
  Tasks = {t1, t2, t3, t4}
  Succeeding = {t1, t3}
  MaxLen = 3
  Window = 1
  MaxClock = 2
  None = None

SPECIFICATION MonitorFairSpec

INVARIANTS
  MonitorTypeOK
  Exact
  Windowed

PROPERTY Completes

\* The tasks may all be done, or stuck.
CHECK_DEADLOCK FALSE
