CONSTANTS
  MaxLen = 4
  Labels = {"root", "dep"}
  Root = "root"
  None = None
  Lexicon <- PackLexicon
  NominalVerbs <- PackNominalVerbs
  PastForm <- PackPastForm
  Participle <- PackParticiple
  GenericSubjects <- PackGenericSubjects
  Stative = {"be"}
  IrregularBases = {}
  ObjectPronouns = {"it"}
  FusedSubjects = {"it's"}
  FusedAuxiliaries = {"isn't"}
  SuffixNouns = {"creation", "deployment", "environment"}
  Documents <- PackDocuments
  Paddings = {0, 720}
  Scale = 180
  Bands <- RegisterBands
  Pages = {"p1", "p2"}
  Versions = {1, 2}
  Assets <- MCAssets
  Bases = {"local", "tag"}
  MaxLoads = 3
  Nothing = Nothing
  Features <- MCFeatures
  NumClasses = 3
  MaxIterations = 3
  Keys <- MCKeys
  HashValues <- MCHashValues
  ClassOrders <- MCClassOrders
  NoKey = NoKey
  MaxText = 4
  WordTags = {"noun", "verb"}
SPECIFICATION MCSpec
INVARIANTS
  ArcsNeverCross
  BoundsAreTheScan
  DerivesTheProjectiveTrees
  TrainedWeightsScore
  ScanAgreesWithClassifier
  RegisterReportIsTrue
  PooledFlagsASuperset
  ReportIsOfThisText
  StartsOnOwnPacks
PROPERTIES
  LoopsEnd
  EveryTouchReturns
CHECK_DEADLOCK FALSE
