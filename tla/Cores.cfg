\* Three cores on a host with two processors, stopped and restarted twice, with
\* two interferences; the hardware thread, the cores and one more thread send an
\* interrupt during the start.  Three threads allocate at once.
CONSTANTS
  Parts = {"startup", "pause", "malloc", "timeval"}
  cm_smp_cpus = 3
  host_cpu_avail = 2
  cores = 2
  Hw = Hw
  Aux = {aux}
  None = None
  MaxSend = 1
  MaxStop = 2
  MaxOther = 2
  Caller = {t1, t2, t3}
  Block = {b1, b2, b3, b4}
  NULL = NULL
  Sec <- MCSec
  Usec <- MCUsec
SPECIFICATION CoresSpec
INVARIANTS KnowsItself WorldStopped PauseMeansBlocked NoLeak Difference
PROPERTIES StopsAndRestarts CoresStarted
\* Sends and stops are bounded, and timeval_subtract is called once.
CHECK_DEADLOCK FALSE
