CONSTANTS
  a = a  b = b  c = c
  n1 = n1  n2 = n2
  r1 = r1  r2 = r2
  NoUser = NoUser
  NoName = NoName
  Users = {a, b, c}
  Bootstrap = a
  Names = {n1}
  Clients = {r1, r2}
  Ops = {"provision", "create", "rename", "grant", "revoke", "delete", "token"}
SPECIFICATION Spec
SYMMETRY MCSymmetry
INVARIANTS NamesDiffer KeyedAccounts ConsentTells SomeAdminLeft
CHECK_DEADLOCK FALSE
