----------------------------- MODULE AgentTools -----------------------------
(***************************************************************************)
(* The tools of the MCP server (src/mcp_server/tools), through which       *)
(* architects and agents work on tasks, links and milestones without the   *)
(* REST API.  There are two generations: one tool per operation, and       *)
(* vtf_manage_task and vtf_manage_milestone, which take the operation as   *)
(* an argument.  Each tool is written from its own code, on the state of   *)
(* TaskLifecycle; that a tool does nothing a handler could not do is       *)
(* ToolsAreHandlers.  A refused call changes nothing.                      *)
(***************************************************************************)
EXTENDS TaskLifecycle

\* The options of TaskLifecycle that the tools come with.
ToolOptions ==
    {"create", "patch", "move", "link", "delete", "complete_milestone", "mcp"}

\* The reviewer who is not one of the agents: "mcp-reviewer".
Reviewers == Agents \union {None}

-----------------------------------------------------------------------------
(* One tool per operation.                                                 *)

ToolTransition(t, to) == PerformTransition(t, task[t], to) /\ UNCHANGED events

SubmitTask(t) ==
    ToolTransition(t, IF brief[t].start_review THEN "pending_start_review"
                                               ELSE "todo")

\* Block, unblock, defer and cancel leave the rest to the status graph.
PutAside(t) ==
    \E to \in {"blocked", "todo", "deferred", "cancelled"} : ToolTransition(t, to)

RecoverTask(t, target) ==
    /\ task[t].status = "needs_attention"
    /\ ToolTransition(t, target)

RemoveTask(t) ==
    /\ Exists(t)
    /\ task' = [task EXCEPT ![t] = Absent]
    /\ events' = [events EXCEPT ![t] = {}]
    /\ UNCHANGED <<brief, milestone, links>>

SetAssignee(t, who) ==
    /\ Exists(t)
    /\ brief[t].assigned_to # who
    /\ \E b \in Briefs :
          /\ b = [brief[t] EXCEPT !.assigned_to = who]
          /\ brief' = [brief EXCEPT ![t] = b]
    /\ UNCHANGED <<task, milestone, links, events>>

AssignTask(t, a) == SetAssignee(t, a)
UnassignTask(t) == SetAssignee(t, None)

\* The task and its dependencies in one transaction; neither the place of the
\* task in the workplan nor an earlier link from the same key is looked at.
NewTask(t, m, b, deps) ==
    /\ ~ Exists(t)
    /\ \A u \in deps : Exists(u)
    /\ {t} \X deps \subseteq LinkChoices
    /\ task' = [task EXCEPT ![t] = Draft(m)]
    /\ brief' = [brief EXCEPT ![t] = b]
    /\ links' = links \union ({t} \X deps)
    /\ UNCHANGED <<milestone, events>>

\* depends_on, when given, replaces the whole set; a milestone or a workplan
\* can be given and not taken away, and neither is held against the other.
UpdateTask(t, m, b, deps) ==
    /\ Exists(t)
    /\ m # None \/ task[t].milestone = None
    /\ brief[t].workplan => b.workplan
    /\ b.assigned_to = brief[t].assigned_to
    /\ \/ deps = Dependencies(t)
       \/ {t} \X deps \subseteq LinkChoices /\ \A u \in deps : Exists(u)
    /\ task' = [task EXCEPT ![t].milestone = m]
    /\ brief' = [brief EXCEPT ![t] = b]
    /\ links' = (links \ ({t} \X Tasks)) \union ({t} \X deps)
    /\ UNCHANGED <<milestone, events>>

LinkTasks(t, u) ==
    /\ Exists(t)
    /\ <<t, u>> \in LinkChoices \ links
    /\ links' = links \union {<<t, u>>}
    /\ UNCHANGED <<task, brief, milestone, events>>

UnlinkTasks(t, u) ==
    /\ <<t, u>> \in links
    /\ links' = links \ {<<t, u>>}
    /\ UNCHANGED <<task, brief, milestone, events>>

TaskTools(t) ==
    \/ SubmitTask(t) \/ PutAside(t) \/ RemoveTask(t) \/ UnassignTask(t)
    \/ \E target \in {"todo", "draft"} : RecoverTask(t, target)
    \/ \E a \in Agents : AssignTask(t, a)
    \/ \E m \in Milestones \union {None}, b \in Briefs, deps \in SUBSET Tasks :
          NewTask(t, m, b, deps) \/ UpdateTask(t, m, b, deps)
    \/ \E u \in Tasks : LinkTasks(t, u) \/ UnlinkTasks(t, u)

-----------------------------------------------------------------------------
(* vtf_manage_task.                                                        *)

ManageSubmit(t) ==
    /\ PerformTransition(t, task[t], IF brief[t].start_review
                                       THEN "pending_start_review" ELSE "todo")
    /\ UNCHANGED events

ManageTransition(t, to) == PerformTransition(t, task[t], to) /\ UNCHANGED events

ManageBlock(t) == PerformTransition(t, task[t], "blocked") /\ UNCHANGED events

ManageDelete(t) ==
    /\ Exists(t)
    /\ task' = [task EXCEPT ![t] = Absent]
    /\ events' = [events EXCEPT ![t] = {}]
    /\ UNCHANGED <<brief, milestone, links>>

ManageAssign(t, a) == SetAssignee(t, a)
ManageUnassign(t) == SetAssignee(t, None)

\* Variant: the status of the task is left to the status graph.
ManageRecoverAny(t, target) ==
    /\ PerformTransition(t, Unclaimed(task[t]), target)
    /\ UNCHANGED events

\* Unlike vtf_recover_task it clears the claim fields.
ManageRecover(t, target) ==
    /\ task[t].status = "needs_attention"
    /\ PerformTransition(t, Unclaimed(task[t]), target)
    /\ UNCHANGED events

\* The workplan of a milestone wins over the one named beside it.
ManageCreate(t, m, b) ==
    /\ ~ Exists(t)
    /\ m # None => b.workplan
    /\ task' = [task EXCEPT ![t] = Draft(m)]
    /\ brief' = [brief EXCEPT ![t] = b]
    /\ UNCHANGED <<milestone, links, events>>

\* A milestone brings its workplan; another workplan takes the task out of
\* its milestone.
ManageUpdate(t, m, b) ==
    /\ Exists(t)
    /\ m # task[t].milestone => b.workplan
    /\ brief[t].workplan => b.workplan
    /\ b.assigned_to = brief[t].assigned_to
    /\ task' = [task EXCEPT ![t].milestone = m]
    /\ brief' = [brief EXCEPT ![t] = b]
    /\ UNCHANGED <<milestone, links, events>>

ManageTask(t) ==
    \/ ManageSubmit(t) \/ ManageBlock(t) \/ ManageDelete(t) \/ ManageUnassign(t)
    \/ \E to \in {"todo", "deferred", "cancelled"} : ManageTransition(t, to)
    \/ \E a \in Agents : ManageAssign(t, a)
    \/ \E target \in {"todo", "draft"} : ManageRecover(t, target)
    \/ \E m \in Milestones \union {None}, b \in Briefs :
          ManageCreate(t, m, b) \/ ManageUpdate(t, m, b)

-----------------------------------------------------------------------------
(* The tools of executors and judges, which their controller calls.        *)

ClaimAndStart(t, a) ==
    /\ MayClaim(t, a)
    /\ PerformTransition(t, [task[t] EXCEPT !.claimed_by = a,
                                            !.claim_lease = "live"], "doing")
    /\ Record(t, "claimed")

ReportProgress(t) ==
    /\ task[t].status = "doing"
    /\ task' = [task EXCEPT ![t].claim_lease = "live"]
    /\ UNCHANGED <<brief, milestone, links, events>>

\* Unlike the REST handler it asks for 'doing'.
SubmitWork(t) ==
    /\ task[t].status = "doing"
    /\ PerformTransition(t, task[t],
          IF brief[t].completion_review THEN "pending_completion_review"
                                        ELSE "done")
    /\ UNCHANGED events

\* The reviewer is not the one whose claim the task carries; the rest is
\* submit_review.
ReviewTask(t, reviewer) ==
    /\ task[t].claimed_by # None => reviewer # task[t].claimed_by
    /\ Approve(t) \/ RequestChanges(t)

WorkTools(t) ==
    \/ \E a \in Agents : ClaimAndStart(t, a)
    \/ ReportProgress(t) \/ SubmitWork(t)
    \/ \E reviewer \in Reviewers : ReviewTask(t, reviewer)

-----------------------------------------------------------------------------
(* Milestones.                                                             *)

\* activate and complete of vtf_manage_milestone: the required status is all
\* that is looked at, and no integration branch is set.
MilestoneTransition(m, required, new) ==
    /\ milestone[m].status = required
    /\ milestone' = [milestone EXCEPT ![m].status = new]
    /\ UNCHANGED <<task, brief, links, events>>

\* vtf_complete_milestone
EndMilestone(m) ==
    /\ milestone[m].status = "active"
    /\ milestone' = [milestone EXCEPT ![m].status = "completed"]
    /\ UNCHANGED <<task, brief, links, events>>

\* The tasks go with the milestone, by the foreign key.
RemoveMilestone(m) ==
    /\ task' = [t \in Tasks |-> IF t \in TasksOf(m) THEN Absent ELSE task[t]]
    /\ events' = [t \in Tasks |-> IF t \in TasksOf(m) THEN {} ELSE events[t]]
    /\ milestone' = [milestone EXCEPT ![m] = NewMilestone]
    /\ UNCHANGED <<brief, links>>

ManageMilestone(m) ==
    \/ MilestoneTransition(m, "pending", "active")
    \/ MilestoneTransition(m, "active", "completed")
    \/ EndMilestone(m) \/ RemoveMilestone(m)

ToolNext ==
    \/ \E t \in Tasks : TaskTools(t) \/ ManageTask(t) \/ WorkTools(t)
    \/ \E m \in Milestones : ManageMilestone(m)

ToolSpec == Init /\ [][Next \/ ToolNext]_vars

-----------------------------------------------------------------------------
(* Properties.                                                             *)

\* The steps of TaskLifecycle that go through a handler's own checks: all but
\* the administrator's reset and the edits of columns handlers maintain.
Handler ==
    \/ \E t \in Tasks : AgentNext(t) \/ PeopleNext(t) \/ DeleteTask(t)
    \/ \E t, u \in Tasks : CreateLink(t, u) \/ DeleteLink(t, u)
    \/ \E t \in Tasks, m \in Milestones \union {None}, b \in Briefs,
          deps \in SUBSET Tasks : CreateTask(t, m, b, deps) \/ EditTask(t, m, b, deps)
    \/ \E m \in Milestones :
          McpActivateMilestone(m) \/ CompleteMilestone(m) \/ DeleteMilestone(m)

\* The two generations of tools do to tasks, links and milestones only what
\* the handlers do: no tool is a way around a check of theirs.
ToolsAreHandlers == [][ToolNext => Handler]_vars
=============================================================================
