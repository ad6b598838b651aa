CONSTANTS
  s1 = s1
  s2 = s2
  c1 = c1
  c2 = c2
  Students <- MCStudents
  Owner <- MCOwner
  Questions = {q1, q2}
  Conns <- MCConns
  NoStudent = NoStudent
  NoQuestion = NoQuestion
  NoConn = NoConn
  InboxCap = 2
  UiCap = 1
  Api = {"leave", "end"}
  MaxClicks = 2
  MaxMessages = 3
SPECIFICATION Spec
INVARIANT TypeOK StatsMatchAnswers AckedOnce
PROPERTY SnapshotsInOrder ImplementsBook AnswersReachPanel EveryRequestReplied
CHECK_DEADLOCK FALSE
