SPECIFICATION FairSpec
CONSTANTS
  b1 = b1
  b2 = b2
  b3 = b3
  p1 = p1
  p2 = p2
  j1 = j1
  j2 = j2
  Ids <- MCBriefs
  Briefs <- MCBriefs
  Suffixed <- MCSuffixed
  Changes <- MCChanges
  Jobs <- MCJobs
  Written <- MCWritten
  Status <- MCStatus
  DependsOn <- MCDependsOn
  MaxRev = 2
INVARIANTS TypeOK VerdictIsRight MainIsValid ManifestIsCurrent
PROPERTIES NoStateUndone ValidationEnds
CHECK_DEADLOCK FALSE
