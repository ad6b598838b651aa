----------------------------- MODULE AnswerBook -----------------------------
(***************************************************************************)
(* What a quiz promises a class, with no actor, channel or panel in sight: *)
(* a student's first accepted answer to a question is final, and so is the *)
(* first accepted buzz for it.  QuizSession implements this.               *)
(***************************************************************************)
CONSTANTS Students, Questions, NoStudent

VARIABLES
    answers,    \* answers[q][s]: the verdict on s's accepted answer to q
    winners     \* winners[q]: the student whose buzz was accepted

Verdicts == {"right", "wrong"}

Init ==
    /\ answers = [q \in Questions |-> [s \in Students |-> "none"]]
    /\ winners = [q \in Questions |-> NoStudent]

Record(q, s, v) ==
    /\ answers[q][s] = "none"
    /\ answers' = [answers EXCEPT ![q][s] = v]
    /\ UNCHANGED winners

Award(q, s) ==
    /\ winners[q] = NoStudent
    /\ winners' = [winners EXCEPT ![q] = s]
    /\ UNCHANGED answers

Next ==
    \E q \in Questions, s \in Students :
        \/ \E v \in Verdicts : Record(q, s, v)
        \/ Award(q, s)

Spec == Init /\ [][Next]_<<answers, winners>>
=============================================================================
