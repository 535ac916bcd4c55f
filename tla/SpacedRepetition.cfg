CONSTANTS
  Scores = {0, 1, 2, 3, 4, 5}
  LongestInterval = 1000
  MaxEase = 300
SPECIFICATION MemorySpec
INVARIANTS
  IntervalEarned
  BetterIsLater
PROPERTY IntervalGrows
