\* Three threads for the mutex; a pauser of one thread or shared by two;
\* three workers and two items, one of which waits for the other; two threads
\* that are sent signals.  Threads may all pause for ever, so deadlock is not
\* an error.
CONSTANTS
  Parts = {"mutex", "pauser", "work", "signals"}
  Threads = {t1, t2, t3}
  SignalEnvs <- MCEnvs
SPECIFICATION MCSpec
INVARIANTS NoLostWakeup PausesSound
PROPERTIES ImplementsRwSpec NoEternalSleepOnFreeMutex SubmittedRuns RealTimeOrder KillIsUrgent
CHECK_DEADLOCK FALSE
