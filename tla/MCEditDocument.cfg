CONSTANTS
  Capital <- PackCapital
  Verbs <- PackVerbs
  Unattested <- PackUnattested
  OddSkeletons <- PackOddSkeletons
  Rituals <- PackRituals
  Substitutions <- PackSubstitutions
  Constructions <- PackConstructions
  Prepositions <- PackPrepositions
  DeletionSpans <- PackDeletionSpans
  FrameRules <- PackFrameRules
  Transducers <- PackTransducers
  Unlimited = 1000
  MaxRuns = 3
  Documents <- MCDocuments
  Rates <- MCRates
SPECIFICATION Spec
INVARIANTS
  BudgetSpentIsApplied
  GuardedWordsSurvive
  QuotedTextIsKept
  ItemsKeepContent
  RecapitalizedOpensSentence
PROPERTIES
  ImplementsBoundedPasses
  NoClauseLost
  BudgetHoldsEnd
