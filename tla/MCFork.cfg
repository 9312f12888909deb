\* What the comments on fork say of inherited frames, refuted by the code.
CONSTANTS
  Parts = {"vm"}
  Frames <- MCFrames
  Vmos <- MCVmos
  Zero = zero
  FileData = file_data
  FileNew = file_new
  NoVmo = no_vmo
  NoPte = no_pte
  NoFrame = no_frame
  NoSpace = no_space
  Procs = {p1, p2}
  LOWEST_ADDR = 0
  HIGHEST_ADDR = 7
  HEAP_BASE = 0
  HEAP_SIZE_LIMIT = 1
  STACK_BOTTOM = 6
  STACK_SIZE = 1
  OverflowChecks <- MCBuilds
  Touched <- MCTouched
  Ranges <- MCRanges
  Sizes <- MCSizes
  MapPerms <- MCMapPerms
  Mixes <- MCMixes
  MaxSteps = 5
SPECIFICATION MCSpec
SYMMETRY Symmetry
INVARIANT CowFramesFrozen
CHECK_DEADLOCK FALSE
