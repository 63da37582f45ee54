-------------------------- MODULE MCTaskLifecycle --------------------------
(* Instances of TaskLifecycle for TLC.                                     *)
EXTENDS TaskLifecycle, TLC

CONSTANTS t1, t2, t3, a1, a2, m1

\* A specification the gate admits, and one with an uncovered criterion.
Covered == [criteria |-> 1, command |-> TRUE, labelled |-> {1}, fail_loud |-> TRUE]
Decorative == [Covered EXCEPT !.labelled = {}]

Brief(spec, start, completion) ==
    [workplan |-> TRUE, spec |-> spec, assigned_to |-> None,
     start_review |-> start, completion_review |-> completion]

\* Reviewed at the end, not at all, or before the start.
ReviewBriefs == {Brief(Covered, FALSE, TRUE), Brief(Covered, FALSE, FALSE),
                 Brief(Covered, TRUE, FALSE)}

OneBrief == {Brief(Covered, FALSE, TRUE)}

NoReview == {Brief(Covered, FALSE, FALSE)}

\* What an edit may turn a task into: one that is not admissible.
EditBriefs == {Brief(Covered, FALSE, TRUE), Brief(Decorative, FALSE, TRUE)}

TaskSymmetry == Permutations(Tasks)

AllTags == Agents \X Tasks
FirstTask == Agents \X {t1}
FirstOfTwo == {<<t1, t2>>}
BothWays == {<<t1, t2>>, <<t2, t1>>}
=============================================================================
