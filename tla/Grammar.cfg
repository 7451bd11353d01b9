CONSTANTS
  Words <- SmallWords
  Patterns <- OnePattern
  Covers <- OneCovers
  Programs <- Ordinary
  MaxAsks = 3
SPECIFICATION Spec
INVARIANTS MeaningMatches IndexComplete CacheTransparent Unified
