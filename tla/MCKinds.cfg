CONSTANTS
  Source <- MCSource
  Opening = 3
  Replacements <- MCReplacements
  MaxEdits = 3
  Programs <- MCPrograms
  Foci = {"html"}
  Bytes <- MCBytes
  Proposals <- MCEdits
  MaxCandidates = 3
SPECIFICATION MCSpec
INVARIANT KindFollowsContext
CHECK_DEADLOCK FALSE
