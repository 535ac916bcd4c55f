SPECIFICATION Spec
CONSTANTS
  c1 = c1
  c2 = c2
  c3 = c3
  r1 = r1
  r2 = r2
  r3 = r3
  NoCard = NoCard
  Cards = {c1, c2, c3}
  Clients = {r1, r2}
  Ops = {"answer", "skip"}
  MaxPosition = 3
  MaxDrills = 1
SYMMETRY MCSymmetry
INVARIANT CompleteIsEnded
