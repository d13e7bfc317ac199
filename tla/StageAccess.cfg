SPECIFICATION Spec
CONSTANTS
  s1=s1 s2=s2 s3=s3 c1=c1 c2=c2 d1=d1 k1=k1 k2=k2 k3=k3
  i1=i1 i2=i2 i3=i3
  None=None
  Scans={s1,s2,s3}
  Conns={c1,c2}
  ConnOf<-TwoQueries
  Dbs={d1}
  DbOf<-OneDatabase
  Keys={k1,k2,k3}
  KeysOf<-BothRead
  Bytes<-Sizes
  Limit<-Limits
  WithErrors={}
  ClipsOutside={k1}
  RefsOutside={k2}
  RootsOutside={}
  Needs={}
  Scopes={}
  StageIds={i1,i2,i3}
INVARIANT RestrictedQueriesStayInside RefusedStagesServeNoNewQuery
CHECK_DEADLOCK FALSE
SYMMETRY AccessSymmetry
