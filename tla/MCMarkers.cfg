CONSTANTS
  Source <- MCSource
  Opening = 3
  Replacements <- MCReplacements
  MaxEdits = 3
  Programs <- MCPrograms
  Foci = {"markdown"}
  Bytes <- MCBytes
  Proposals <- MCEdits
  MaxCandidates = 3
SPECIFICATION MCSpec
INVARIANT MarkersEndRuns
CHECK_DEADLOCK FALSE
