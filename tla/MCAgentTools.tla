--------------------------- MODULE MCAgentTools ---------------------------
(* Instances of AgentTools for TLC.                                        *)
EXTENDS AgentTools

CONSTANTS t1, t2, a1, m1

Covered == [criteria |-> 1, command |-> TRUE, labelled |-> {1}, fail_loud |-> TRUE]

Brief(workplan, start, completion, who) ==
    [workplan |-> workplan, spec |-> Covered, assigned_to |-> who,
     start_review |-> start, completion_review |-> completion]

\* Reviewed, the same when assigned, and not reviewed outside of a workplan.
ToolBriefs ==
    {Brief(TRUE, TRUE, TRUE, None), Brief(TRUE, TRUE, TRUE, a1),
     Brief(FALSE, FALSE, FALSE, None)}

OneBrief == {Brief(TRUE, FALSE, TRUE, None)}

AllTags == Agents \X Tasks
OnItself == {<<t1, t1>>}
=============================================================================
