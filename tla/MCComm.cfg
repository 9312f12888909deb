\* A pipe or socket of two items with two writers and a reader; the bounds of
\* the other parts are in MCComm.  Threads may all wait for a peer that does
\* nothing, so deadlock is not an error.
CONSTANTS
  Parts = {"channel", "unix", "ip", "epoll", "poll", "tty", "devpts"}
  t1 = t1
  t2 = t2
  r1 = r1
  Writers <- MCWriters
  Readers <- MCReaders
  Capacity = 2
  MaxLen = 2
SPECIFICATION MCSpec
SYMMETRY Symmetry
INVARIANTS ChannelSound SocketsSound PollingSound TerminalsSound
PROPERTIES EofOnlyWhenDrained
CHECK_DEADLOCK FALSE
