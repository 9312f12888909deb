\* What load_elf.rs says of a program that cannot be loaded, refuted by the
\* code.
CONSTANTS
  Parts = {"exec"}
  MaxPid = 3
  Terminals = {ntty, pty}
  NTty = ntty
  None = None
  Uids = {0, 1, 2}
  Gids = {0, 1}
  MaxVmo = 2
  MaxVmar = 2
  MaxCap = 2
  MaxMapping = 2
  RootRights <- MCRootRights
  PermSets <- MCPermSets
  Masks <- MCMasks
SPECIFICATION MCSpec
INVARIANT FailedKeepsMemory
CHECK_DEADLOCK FALSE
