--------------------------- MODULE MCQuizSession ---------------------------
(* Two students with a socket each (the slot is reused when they reconnect   *)
(* and retry), two questions, and channels of length two and one, so that    *)
(* each of them can fill.                                                    *)
EXTENDS QuizSession, TLC

CONSTANTS s1, s2, c1, c2

MCStudents == {s1, s2}
MCConns    == {c1, c2}
MCOwner    == c1 :> s1 @@ c2 :> s2
=============================================================================
