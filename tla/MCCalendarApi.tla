---------------------------- MODULE MCCalendarApi ----------------------------
(***************************************************************************)
(* The instances of CalendarApi that TLC checks.                           *)
(***************************************************************************)
EXTENDS CalendarApi, TLC

CONSTANTS e1, e2, u1, u2, r1, r2, r3, t1, t2

MCDraft(t, s) == [title |-> t, start |-> s, end |-> 2, before |-> 0]

MCDrafts == {MCDraft(t, s) : t \in {t1, t2}, s \in {1, 2}}

\* One HTTP client changes the title and one the start.
MCPatches == {[title |-> t2], [start |-> 2]}

MCSymmetry == Permutations({r1, r2, r3}) \cup Permutations({u1, u2})
=============================================================================
