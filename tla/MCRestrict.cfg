\* What dyn_cap.rs says of restrict, refuted by the code.
CONSTANTS
  Parts = {"caps"}
  MaxPid = 3
  Terminals = {ntty, pty}
  NTty = ntty
  None = None
  Uids = {0, 1, 2}
  Gids = {0, 1}
  MaxVmo = 2
  MaxVmar = 2
  MaxCap = 2
  MaxMapping = 2
  RootRights <- MCRootRights
  PermSets <- MCPermSets
  Masks <- MCMasks
SPECIFICATION MCSpec
INVARIANT RestrictNarrows
CHECK_DEADLOCK FALSE
