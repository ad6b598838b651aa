CONSTANTS
  home = home
  away = away
  Shapes = {a, b}
  Videos = {v}
  Places <- MCPlaces
  Home <- home
  Loose = Loose
  Absent = Absent
  NoOne = NoOne
  MaxDepth = 2
  KeysDuringDrag = FALSE
  MenuOverlaps = TRUE
  OverButtons = TRUE
  MaxOps = 7
SPECIFICATION Spec
INVARIANT GuardReturns
CHECK_DEADLOCK FALSE
