CONSTANTS
  Subs = {s1}
  Gradings = {g1, g2}
  Creation = Creation
  MaxFails = 1
  MaxCrashes = 1
  None = None
  Torn = Torn
  Ungraded = Ungraded
  Entry = Entry
SPECIFICATION Spec
SYMMETRY Symmetry
INVARIANT TypeOK FileBeforeRecord ReplyIsDurable AnswerReadable MarksAgree BackupComplete
CHECK_DEADLOCK FALSE
