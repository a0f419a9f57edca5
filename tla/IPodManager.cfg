SPECIFICATION FairSpec
CONSTANTS
  Procs = {1, 2, 3}
  MaxCrashes = 1
  Binders = {b1}
  ShellRuns = {"-x"}
  MaxPlugs = 2
INVARIANTS TypeOK KeepsItsPlace NamesAreFree FlagFollowsPort
PROPERTIES RemovalStopsDaemon
CHECK_DEADLOCK FALSE
