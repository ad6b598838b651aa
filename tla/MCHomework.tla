----------------------------- MODULE MCHomework -----------------------------
(* One submission, resubmission apart, and two requests that grade it: one   *)
(* crash, one failed write, one backup at any time.                         *)
EXTENDS Homework, TLC
Symmetry == Permutations(Gradings)
=============================================================================
