CONSTANTS
  d1 = d1
  d2 = d2
  w1 = w1
  w2 = w2
  NoJob = NoJob
  Jobs = {1, 2, 3}
  Decks = {d1, d2}
  Workers = {w1}
  DeckOf <- MCDeckOf
  Content <- MCContent
  MaxFaults = 1
  MaxCrashes = 1
SPECIFICATION FairSpec
INVARIANTS
  TypeOK
PROPERTIES
  OutcomeIsFinal
  ImplementsContract
