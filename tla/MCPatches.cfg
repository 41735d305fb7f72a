CONSTANTS
  Source <- MCSource
  Opening = 3
  Replacements <- MCReplacements
  MaxEdits = 3
  Programs <- MCPrograms
  Foci = {"splicer", "resolution", "rules", "html", "markdown"}
  Bytes <- MCBytes
  Proposals <- MCEdits
  MaxCandidates = 3
SPECIFICATION MCSpec
INVARIANTS
  DisjointPatches
  HonestPatches
  OnlyAcceptedShadow
  RebasedSpansFollow
  MatchesAreOccurrences
  RewritesStayClosed
  ProseIsPageText
PROPERTY ImplementsWorkingText
\* a sentence is finished when its stages are: no further edit is due
CHECK_DEADLOCK FALSE
