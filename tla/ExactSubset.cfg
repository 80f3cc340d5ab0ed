SPECIFICATION Search
CONSTANTS
  MaxTarget = 40
  Denom = {1, 2, 5, 10, 20}
  MaxCoins = 5
  MaxSplitProofs = 4
INVARIANTS PaysExactly SplitsWhatCanBeSplit
CHECK_DEADLOCK FALSE
