---------------------------- MODULE ApprovalFlow ----------------------------
(***************************************************************************)
(* What an approval procedure promises an applicant: it goes through its   *)
(* nodes in order, one accepted decision at a time, and an approval or a   *)
(* rejection is final.  Two decisions taken at once on a procedure still   *)
(* in progress make it contested, and nothing is promised of it any more.  *)
(***************************************************************************)
EXTENDS Naturals

CONSTANTS
    Workflows,
    Length          \* the number of nodes of each procedure

VARIABLES
    verdict,        \* none, InProgress, Approved, Rejected, contested
    passed          \* how many nodes have signed

Init ==
    /\ verdict = [w \in Workflows |-> "none"]
    /\ passed = [w \in Workflows |-> 0]

Open(w) ==
    /\ verdict[w] = "none"
    /\ verdict' = [verdict EXCEPT ![w] = "InProgress"]
    /\ UNCHANGED passed

\* A node signs; the last one completes the procedure.
Sign(w) ==
    /\ verdict[w] = "InProgress"
    /\ passed' = [passed EXCEPT ![w] = @ + 1]
    /\ verdict' = [verdict EXCEPT ![w] = IF passed'[w] = Length THEN "Approved" ELSE @]

Refuse(w) ==
    /\ verdict[w] = "InProgress"
    /\ verdict' = [verdict EXCEPT ![w] = "Rejected"]
    /\ UNCHANGED passed

Contest(w) ==
    /\ verdict[w] = "InProgress"
    /\ verdict' = [verdict EXCEPT ![w] = "contested"]
    /\ passed' = [passed EXCEPT ![w] = 0]

Next == \E w \in Workflows : Open(w) \/ Sign(w) \/ Refuse(w) \/ Contest(w)

Spec == Init /\ [][Next]_<<verdict, passed>>
=============================================================================
