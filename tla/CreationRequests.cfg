CONSTANTS
  r1 = r1
  r2 = r2
  r3 = r3
  k1 = k1
  k2 = k2
  d1 = d1
  d2 = d2
  d3 = d3
  n1 = n1
  N1 = N1
  NoKey = NoKey
  NoName = NoName
  Gone = Gone
  NoDeck = NoDeck
  NameOf <- MCNameOf
  Lower <- MCLower
  Clients = {r1, r2, r3}
  Keys = {k1, k2}
  Names = {n1, N1}
  Decks = {d1, d2, d3}
  Extras = {"rename", "delete", "expire"}
SPECIFICATION Spec
SYMMETRY MCSymmetry
INVARIANTS TypeOK NamesDiffer ToldIsThere
PROPERTY StoredIsReplayed
