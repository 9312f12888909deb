\* Three processes, the console and a pty; three user and two group ids; two
\* VMOs, VMARs, capabilities and mappings; four threads; fourteen files.  All
\* processes may have exited, so deadlock is not an error.
CONSTANTS
  Parts = {"process", "credentials", "caps", "threads", "exec"}
  MaxPid = 3
  Terminals = {ntty, pty}
  NTty = ntty
  None = None
  Uids = {0, 1, 2}
  Gids = {0, 1}
  MaxVmo = 2
  MaxVmar = 2
  MaxCap = 2
  MaxMapping = 2
  RootRights <- MCRootRights
  PermSets <- MCPermSets
  Masks <- MCMasks
SPECIFICATION MCSpec
INVARIANTS TablesAgree FamilySound IdsArePermuted AuthorityKept ThreadsSound ProgramWhole
CHECK_DEADLOCK FALSE
