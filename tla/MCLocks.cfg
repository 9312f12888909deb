\* Four threads and a reader limit of three for RwLock, so that the fourth
\* reader is refused by MAX_READER; three threads for RwMutex, where the
\* limit is out of reach, as it is in practice.  RwMutex may stop with all
\* threads asleep (see UpreaderNotForgotten) and all threads may wait for a
\* futex, so deadlock is not an error.
CONSTANTS
  Parts = {"rwlock", "rwmutex", "futex", "guards"}
  Threads = {t1, t2, t3, t4}
  MutexThreads = {m1, m2, m3}
  MAX_READER = 3
  SpinLocks = {"s1", "s2"}
  RwLocks = {"r1"}
  IrqLocks = {"s1", "r1"}
  MaxGuards = 3
  MaxNesting = 2
SPECIFICATION MCSpec
SYMMETRY Symmetry
INVARIANTS Exclusion WordIsSumOfHolders SleepersSound GuardsNest
PROPERTIES UpgradeBlocksNewReaders ImplementsRwSpec MutexImplementsRwSpec
CHECK_DEADLOCK FALSE
