\* Seven mixes of calls on two images of two block groups; the bounds of the
\* other parts are in MCFiles.  The calls of a mix are bounded and a full
\* file system stops, so deadlock is not an error.
CONSTANTS
  Parts = {"ext2", "paths", "ramfs", "handles", "procfs"}
  NGroups = 2
  inodes_per_group = 3
  blocks_per_group = 4
  BLOCK_SIZE = 4
  MaxObj = 7
  actual_len <- MCLen
  Names = {"a", "long"}
  MaxBlocks = 2
  MaxAsleep = 2
  Images <- MCImages
  Mixes <- MCMixes
  HThreads = {"t1", "t2", "t3"}
  ProcOf <- MCProcOf
  HandlesOf <- MCHandlesOf
  AccessOf <- MCAccessOf
  Sizes = {1}
  MaxLen = 3
SPECIFICATION MCSpec
INVARIANTS FsSound SyncLasts NamesSound OffsetShared
PROPERTIES FileStepsSound
CHECK_DEADLOCK FALSE
