SPECIFICATION Spec
CONSTANTS
  s1=s1 s2=s2 s3=s3 c1=c1 c2=c2 d1=d1 k1=k1 k2=k2 k3=k3
  i1=i1 i2=i2 i3=i3
  None=None
  Scans={s1,s2}
  Conns={c1,c2}
  ConnOf<-TwoThreads
  Dbs={d1}
  DbOf<-OneDatabase
  Keys={k1,k2,k3}
  KeysOf<-OneReads
  Bytes<-Sizes
  Limit<-Limits
  WithErrors={k1}
  ClipsOutside={}
  RefsOutside={k2}
  RootsOutside={}
  Needs={3}
  Scopes={"global"}
  StageIds={i1,i2,i3}
INVARIANT TypeOK OverlapExceedsByOneStageEach OffKeepsOnlyOverlapping ReadersAreWarned
PROPERTY LoneCallsKeepTheLimits DropsOldestForRoom
CHECK_DEADLOCK FALSE
SYMMETRY LimitSymmetry
