------------------------------ MODULE MCCalendar ------------------------------
(***************************************************************************)
(* The instances of Calendar that TLC checks.                              *)
(***************************************************************************)
EXTENDS Calendar, TLC

CONSTANTS e1, u1, u2, r1, r2, t1

\* To be notified at instant 1, over at 1; and to be notified at 1, over at 2.
MCDraft(s, b) == [title |-> t1, start |-> s, end |-> s, before |-> b]

MCDrafts == {MCDraft(1, 0), MCDraft(2, 1)}

MCPatches == {[start |-> 2, end |-> 2, before |-> 1], [title |-> t1]}

MCSymmetry == Permutations({r1, r2}) \cup Permutations({u1, u2})
=============================================================================
