CONSTANTS
  home = home
  away = away
  Shapes = {a, b}
  Videos = {v}
  Places <- MCPlaces
  Home <- home
  Loose = Loose
  Absent = Absent
  NoOne = NoOne
  MaxDepth = 2
  KeysDuringDrag = FALSE
  MenuOverlaps = FALSE
  OverButtons = TRUE
  MaxOps = 9
SPECIFICATION Spec
INVARIANT GuardFreed
PROPERTY ImplementsTimeline
CHECK_DEADLOCK FALSE
