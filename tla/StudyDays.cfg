CONSTANTS
  d1 = d1  d2 = d2
  fixed = fixed  shifting = shifting
  Decks = {d1, d2}
  Zones = {fixed, shifting}
  Home = fixed
  Offset <- MCOffset
  Day = 2
  Intervals = {1, 3}
  Never = Never
  MaxTime = 5
  MaxAnswers = 3
  Totals = {0, 12}
  Lengths = {1, 5}
  Minutes = {1, 8}
SPECIFICATION Spec
SYMMETRY MCSymmetry
INVARIANTS PlanFits StreakOfDiary DueTodayByDate
CHECK_DEADLOCK FALSE
