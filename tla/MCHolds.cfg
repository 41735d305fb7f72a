CONSTANTS
  Capital <- PackCapital
  Verbs <- PackVerbs
  Unattested <- PackUnattested
  OddSkeletons <- PackOddSkeletons
  Rituals <- PackRituals
  Substitutions <- PackSubstitutions
  Constructions <- PackConstructions
  Prepositions <- PackPrepositions
  DeletionSpans <- PackDeletionSpans
  FrameRules <- PackFrameRules
  Transducers <- PackTransducers
  Unlimited = 1000
  MaxRuns = 3
  Documents <- HeldDocuments
  Rates <- NoCalibration
SPECIFICATION Spec
INVARIANT HoldsPointAtTheirText
