CONSTANTS
  Source <- MCSource
  Opening = 3
  Replacements <- MCReplacements
  MaxEdits = 3
  Programs <- MCCopied
  Foci = {"rules"}
  Bytes <- MCBytes
  Proposals <- MCEdits
  MaxCandidates = 3
SPECIFICATION MCSpec
INVARIANT EveryRewriteCanRealize
CHECK_DEADLOCK FALSE
