CONSTANTS
  x = x  y = y
  t1 = t1  t2 = t2  t3 = t3
  Nobody = Nobody
  Accounts = {x, y}
  Calls = {"call", "register"}
  Tasks = {t1, t2}
  MaxTokens = 2
SPECIFICATION FairSpec
INVARIANTS PairsMatch RefusedNotReused TokenOfStored
PROPERTY TasksEnd
CHECK_DEADLOCK FALSE
