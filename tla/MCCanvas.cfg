CONSTANTS
  home = home
  away = away
  Shapes = {a, b}
  Videos = {v}
  Places <- MCPlaces
  Home <- home
  Loose = Loose
  Absent = Absent
  NoOne = NoOne
  MaxDepth = 2
  KeysDuringDrag = TRUE
  MenuOverlaps = TRUE
  OverButtons = TRUE
  MaxOps = 8
SPECIFICATION Spec
INVARIANT TypeOK RecordsMatch
CHECK_DEADLOCK FALSE
