---------------------------- MODULE UndoTimeline ----------------------------
(***************************************************************************)
(* What undo and redo promise someone editing a picture: a line of past    *)
(* pictures, the present one and a line of undone ones.  Editing forgets   *)
(* the undone pictures, undo and redo move along the line without          *)
(* changing any picture on it, and only the oldest are ever forgotten.     *)
(* Canvas implements this.                                                 *)
(***************************************************************************)
EXTENDS Naturals, Sequences

CONSTANTS
    Blank,          \* the picture one starts from
    Limit           \* how many past pictures are kept

VARIABLES past, present, future

Last(s)  == s[Len(s)]
Front(s) == SubSeq(s, 1, Len(s) - 1)

\* The past with one more picture, at most Limit of them.
Remember(picture) ==
    LET longer == Append(past, picture) IN
    IF Len(longer) > Limit THEN Tail(longer) ELSE longer

Init == present = Blank /\ past = <<>> /\ future = <<>>

\* Any edit: what the present becomes is the editor's affair.
Edit ==
    /\ past' = Remember(present)
    /\ future' = <<>>

Undo ==
    /\ past # <<>>
    /\ present' = Last(past)
    /\ past' = Front(past)
    /\ future' = Append(future, present)

Redo ==
    /\ future # <<>>
    /\ present' = Last(future)
    /\ future' = Front(future)
    /\ past' = Remember(present)

Next == Edit \/ Undo \/ Redo

Spec == Init /\ [][Next]_<<past, present, future>>
=============================================================================
