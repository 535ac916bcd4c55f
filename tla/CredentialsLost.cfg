CONSTANTS
  x = x  y = y
  t1 = t1  t2 = t2  t3 = t3
  Nobody = Nobody
  Accounts = {x}
  Calls = {"call"}
  Tasks = {t1}
  MaxTokens = 1
SPECIFICATION Spec
PROPERTY KeyOutlivesToken
CHECK_DEADLOCK FALSE
