----------------------------- MODULE MCScheduler -----------------------------
(***************************************************************************)
(* The instances of Scheduler that TLC checks.                             *)
(***************************************************************************)
EXTENDS Scheduler, TLC

CONSTANTS e1, e2, u1, t1

\* To be notified at instant 1, over at once; and at instant 2, over at 3.
MCDrafts == {[title |-> t1, start |-> 1, end |-> 1, before |-> 0],
             [title |-> t1, start |-> 3, end |-> 3, before |-> 1]}

MCIds == {e1, e2}

MCSymmetry == Permutations(MCIds)
=============================================================================
