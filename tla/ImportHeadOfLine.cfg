CONSTANTS
  d1 = d1
  d2 = d2
  w1 = w1
  w2 = w2
  NoJob = NoJob
  Jobs = {1, 2}
  Decks = {d1}
  Workers = {w1}
  DeckOf <- MCOneDeck
  Content <- MCOverlong
  MaxFaults = 0
  MaxCrashes = 0
SPECIFICATION FairSpec
PROPERTY
  StoredJobIsResolved
