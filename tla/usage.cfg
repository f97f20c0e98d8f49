CONSTANTS
  a1 = a1
  a2 = a2
  tokens = tokens
  cost = cost
  Agent = {a1, a2}
  Meter = {tokens}
  Places <- MCPlaces
  Amount = {2}
  Deadline = {2}
  Null = Null
  Absent = Absent
  MaxWork = 2
  MaxReports = 3
  MaxBudgets = 1
  MaxRestarts = 1
  MaxClock = 2
SPECIFICATION UsageSpec
SYMMETRY Symmetry
INVARIANT CountsAreReal
INVARIANT VerdictIsFair
CHECK_DEADLOCK FALSE
