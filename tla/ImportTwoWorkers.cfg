CONSTANTS
  d1 = d1
  d2 = d2
  w1 = w1
  w2 = w2
  NoJob = NoJob
  Jobs = {1, 2}
  Decks = {d1, d2}
  Workers = {w1, w2}
  DeckOf <- MCDeckOf
  Content <- MCOverlong
  MaxFaults = 2
  MaxCrashes = 1
SPECIFICATION Spec
INVARIANTS
  AtMostOnce
  StatusMatchesCards
  OneDelivery
