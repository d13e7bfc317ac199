SPECIFICATION FairSpec
CONSTANTS
  t1=t1 t2=t2
  NoThread=NoThread
  Threads={t1,t2}
  FileCount=3
  Rows<-ThreeFiles
  StageRows<-ThreeStages
  MaxTimes=2
  MorselSize=2
  VectorSize=2
  Clips<-OneClip
INVARIANT TypeOK RowsOutliveNoStage RowsShowTheirTime NoRowsWithoutRefusedFiles
PROPERTY KeepsOrder ScanEnds
