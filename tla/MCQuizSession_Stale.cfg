CONSTANTS
  s1 = s1
  s2 = s2
  c1 = c1
  c2 = c2
  Students <- MCStudents
  Owner <- MCOwner
  Questions = {q1, q2}
  Conns <- MCConns
  NoStudent = NoStudent
  NoQuestion = NoQuestion
  NoConn = NoConn
  InboxCap = 2
  UiCap = 1
  Api = {}
  MaxClicks = 3
  MaxMessages = 3
SPECIFICATION Spec
INVARIANT PanelShowsStatus
CHECK_DEADLOCK FALSE
