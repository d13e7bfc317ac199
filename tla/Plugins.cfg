SPECIFICATION FairSpec
CONSTANTS
  p1=p1 p2=p2 pid1=pid1 pid2=pid2 d1=d1 d2=d2 d3=d3
  Procs={p1,p2}
  Pid<-Pids
  Dbs={d1,d2,d3}
  ProcOf<-TwoAndOne
  Count=3
  PluginOf<-SchemaAndInfo
  None=None
  MaxFailures=1
INVARIANT TypeOK FilesInPlaceAreFinished PluginsKeepTheirResources ExitLeavesOnlyFailedAttempts ShortFilesAreReplaced
PROPERTY LoadReturns
CHECK_DEADLOCK FALSE
