CONSTANTS
  c1 = c1
  c2 = c2
  c3 = c3
  r1 = r1
  r2 = r2
  r3 = r3
  NoCard = NoCard
  Cards = {c1, c2}
  Clients = {r1, r2}
  Ops = {"create", "edit", "delete", "rename", "merge", "replace", "drop"}
  MaxVersion = 4
SPECIFICATION FairSpec
PROPERTY RequestReturns
INVARIANTS TypeOK CountRight NoOrphans
PROPERTY VersionTells
