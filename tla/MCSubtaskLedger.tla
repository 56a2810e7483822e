-------------------------- MODULE MCSubtaskLedger --------------------------
(* Instances of SubtaskLedger for TLC.                                     *)
EXTENDS SubtaskLedger, TLC

CONSTANTS r1, r2, k1, k2, p1, p2, q1, q2, q3, c1, c2, c3, x1

\* one operation
OneKeyOf == q1 :> k1
OneParentOf == q1 :> p1

\* two batches of one parent, and a third that has the key of the first and
\* another parent
RivalKeyOf == q1 :> k1 @@ q2 :> k2 @@ q3 :> k1
RivalParentOf == q1 :> p1 @@ q2 :> p1 @@ q3 :> p2

\* runners, and the task ids the board chooses, are interchangeable
Symmetric == Permutations(Runner) \cup Permutations(Card \ External)
=============================================================================
