CONSTANTS
  Day = 6
  Shift = 2
  Froms <- MCFroms
  Lengths = {1, 2, 3, 5, 7, 11}
  Starts = {0, 1, 3, 5}
  Ends = {1, 2, 4, 5}
  Open = Open
SPECIFICATION Spec
INVARIANTS ExactWithinOneDay NoFalseAlarm
CHECK_DEADLOCK FALSE
