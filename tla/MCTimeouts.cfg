SPECIFICATION FairSpec
CONSTANTS
  TIME_MOD = 16
  MEMP_NUM_SYS_TIMEOUT = 3
  lwip_cyclic_timers <- const_timers
  interval_ms <- const_interval
  OneShot = {"one"}
  Msecs = {0, 4}
  MaxLate = 3
INVARIANTS Sorted CyclicKept
PROPERTIES NeverEarly NothingOverdue Paced ChecksReturn EveryTimerRuns
