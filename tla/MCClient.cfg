SPECIFICATION ClientSpec
CONSTANTS
  Roots = {a, b, d}
  First = a
  Fresh = c
  MaxItems = 2
  MaxClicks = 2
  MaxFaults = 1
SYMMETRY Symmetry
INVARIANTS ShowsTheThread LastClickWins
PROPERTIES SwitchAsks
CHECK_DEADLOCK FALSE
