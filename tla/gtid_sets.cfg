SPECIFICATION GtidSpec
CONSTANTS
  a = a
  Sids = {a}
  Width = 3
  Tokens <- OctalTokens
  MaxIntervals = 2
INVARIANTS ParsedIsListed SortedAndMerged ContainsIsInclusion SubtractIsDifference PrintedCanBeRead
CHECK_DEADLOCK FALSE
