CONSTANTS
  Radix = 8
  HashValues = {1, 2}
  NotUtf8 = 9
  DamagedCells = {0, 1, 9}
  Documents <- MCDocuments
  Queried <- LookedUp
  SentenceStart <- Start
  SkeletonStart <- SkeletonOpens
  SkeletonEnd <- SkeletonCloses
  Pooled <- PooledPairs
  EvidenceDamage = {0, 1, 3, 9}
  FrameDamage = {0, 1, 3, 9, 130}
SPECIFICATION MCSpec
INVARIANTS
  ArtifactAnswersLikeItsSource
  MinedEvidenceIsAttested
  CalibrationSparesHumans
  LoadersAgree
  MiningIsComplete
  MatchesLieInOneDocument
  AuthoredPacksAreSound
  FrameFileAnswersLikeItsSource
  MeasuresAreSound
CHECK_DEADLOCK FALSE
