SPECIFICATION Spec
CONSTANTS
  s1=s1 s2=s2 c1=c1 c2=c2 d1=d1 k1=k1 k2=k2 main=main part=part clip=clip
  i1=i1 i2=i2 i3=i3 i4=i4
  None=None
  Scans={s1,s2}
  Conns={c1,c2}
  ConnOf<-OneScanEach
  Dbs={d1}
  DbOf<-OneDb
  Keys={k1}
  Files={main,part}
  Root<-OneRoot
  Uses<-OneUses
  Clips<-NoClips
  MaxVersion=2
  Lost<-Nothing
  Broken<-Nothing
  StageIds={i1,i2,i3}
  QuietWrites=FALSE
SYMMETRY ConnSymmetry
INVARIANT ChangedFilesAreReopened
