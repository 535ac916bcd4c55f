CONSTANTS
  a = a  b = b  c = c
  n1 = n1  n2 = n2
  r1 = r1  r2 = r2
  NoUser = NoUser
  NoName = NoName
  Users = {a}
  Bootstrap = a
  Names = {n1}
  Clients = {r1, r2}
  Ops = {"grant", "revoke", "token"}
SPECIFICATION Spec
INVARIANT RevocationHolds
CHECK_DEADLOCK FALSE
