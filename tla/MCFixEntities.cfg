CONSTANTS
  Fragments <- MCFragments
  Jobs <- MCJobs
  ById <- MCById
  ByHash <- MCByHash
  Legacies <- MCLegacies
  Interruptible = {"fix-entities"}
  Genres <- MCGenres
  Models <- MCModels
  Prompts <- MCPrompts
  Targets = {1, 4, 7, 9}
  Shares <- MCShares
  Limits = {1, 5}
  PairedTargets = {1, 2, 3}
  NoFilter = NoFilter
  Runs = {r1, r2, r3}
  Blocks = 2
  MaxCrashes = 2
  Overlap = FALSE
  Original = received
  Nothing = Nothing
  Absent = Absent
  Torn = Torn
SPECIFICATION MCSpec
PROPERTY FixEntitiesRefreshesSha
CHECK_DEADLOCK FALSE
