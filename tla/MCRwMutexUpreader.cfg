\* What rwmutex.rs says of upread, refuted by the code.
CONSTANTS
  Threads = {t1, t2}
  MAX_READER = 3
SPECIFICATION FairSpec
PROPERTIES UpreaderNotForgotten
