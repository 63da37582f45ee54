--------------------------- MODULE TaskLifecycle ---------------------------
(***************************************************************************)
(* The life of tasks and milestones as the handlers of the API change it,  *)
(* one whole handler at a time: the REST actions of src/tasks/views.py,    *)
(* the claim and merge-slot services, the review service, the milestone    *)
(* endpoints and the three reapers Celery runs.  TaskRequests looks inside *)
(* the handlers, at the database statements they are made of.              *)
(***************************************************************************)
EXTENDS TaskStateMachine

CONSTANTS
    Tasks,       \* primary keys of tasks
    Seeded,      \* the tasks that exist, in draft, when the model starts
    Agents,      \* agents (each with its user)
    Milestones,  \* milestones of one workplan
    None,        \* a null column
    Briefs,      \* what the author of a task may write into it
    TagMatch,    \* <<a, t>> : the tags agent a presents cover t's required_tags
    LinkChoices, \* the depends_on links that exist or may be made
    Patched,     \* what a PATCH may write into review_return_to
    Optional     \* which of OptionalOps the instance allows

\* "move" lets a PATCH change the milestone of a task, "columns" lets one
\* write the columns the handlers maintain, "mcp" adds the MCP server's tools.
OptionalOps ==
    {"create", "link", "patch", "move", "columns", "delete", "reset",
     "complete_milestone", "mcp"}

ASSUME ConstantsAssumption ==
    /\ Seeded \subseteq Tasks
    /\ None \notin Tasks \union Agents \union Milestones \union Statuses
    /\ \A b \in Briefs :
          /\ b.workplan \in BOOLEAN
          /\ b.start_review \in BOOLEAN
          /\ b.completion_review \in BOOLEAN
          /\ b.assigned_to \in Agents \union {None}
    /\ TagMatch \subseteq Agents \X Tasks
    /\ LinkChoices \subseteq Tasks \X Tasks
    /\ Patched \subseteq Statuses
    /\ Optional \subseteq OptionalOps

VARIABLES
    task,       \* the tasks_task row of each key
    brief,      \* its authored columns: workplan, spec, assignee, review flags
    milestone,  \* the workplans_milestone row of each milestone
    links,      \* the depends_on links between tasks
    events      \* which of the tracked TaskEvents and Reviews a task has

vars == <<task, brief, milestone, links, events>>

EventKinds == {"claimed", "integration_succeeded"}

Absent ==
    [status |-> "absent", milestone |-> None,
     claimed_by |-> None, claim_lease |-> "none", review_lease |-> FALSE,
     integration_lease |-> FALSE, return_to |-> None]

Draft(m) == [Absent EXCEPT !.status = "draft", !.milestone = m]

\* Where a resubmission may lead: the review service saves a review status,
\* a PATCH saves what it is given.
ReturnTargets ==
    REVIEW_STATUSES \union IF "columns" \in Optional THEN Patched ELSE {}

Row ==
    [status : Statuses \union {"absent"},
     milestone : Milestones \union {None},
     claimed_by : Agents \union {None},
     claim_lease : Leases, review_lease : BOOLEAN, integration_lease : BOOLEAN,
     return_to : ReturnTargets \union {None}]

\* The one type invariant of the module.
TypeOK ==
    /\ task \in [Tasks -> Row]
    /\ brief \in [Tasks -> Briefs]
    /\ milestone \in [Milestones -> [status : MilestoneStatuses,
                                     branch : BOOLEAN]]
    /\ links \subseteq LinkChoices
    /\ events \in [Tasks -> SUBSET EventKinds]

NewMilestone == [status |-> "pending", branch |-> FALSE]

Exists(t) == task[t].status # "absent"
Open(t) == task[t].status \in NON_TERMINAL_STATUSES
TasksOf(m) == {t \in Tasks : task[t].milestone = m}

\* TaskSerializer.validate: a task in a milestone has that milestone's workplan.
Consistent(b, m) == m # None => b.workplan

Init ==
    /\ brief \in [Tasks -> Briefs]
    /\ \E home \in [Seeded -> Milestones \union {None}] :
          /\ \A t \in Seeded : Consistent(brief[t], home[t])
          /\ task = [t \in Tasks |->
                        IF t \in Seeded THEN Draft(home[t]) ELSE Absent]
    /\ milestone = [m \in Milestones |-> NewMilestone]
    /\ links \in IF "link" \in Optional THEN {{}} ELSE SUBSET LinkChoices
    /\ events = [t \in Tasks |-> {}]

-----------------------------------------------------------------------------
(* What every transition does.                                             *)

\* is_workgraph_task: the task's milestone owns an integration branch.
Workgraph(t) ==
    IF task[t].milestone = None THEN FALSE ELSE milestone[task[t].milestone].branch

Context(t) ==
    [milestone |-> IF task[t].milestone = None
                     THEN "none" ELSE milestone[task[t].milestone].status,
     workgraph |-> Workgraph(t),
     workplan |-> brief[t].workplan,
     admissible |-> guard_spec_admissible(brief[t].spec)]

\* Variant: the count is taken before the task's own row is saved.
LastOpenTaskUnsaved(t) ==
    LET m == task[t].milestone
    IN  /\ m # None
        /\ milestone[m].status \in {"active", "pending"}
        /\ \A u \in TasksOf(m) : ~ Open(u)

\* Variant: what is put aside is not counted as open.
LastTaskInPlay(t) ==
    LET m == task[t].milestone
    IN  /\ m # None
        /\ milestone[m].status \in {"active", "pending"}
        /\ \A u \in TasksOf(m) \ {t} :
              ~ Open(u) \/ task[u].status \in {"blocked", "deferred"}

\* maybe_complete_milestone finds nothing open besides t.
LastOpenTask(t) ==
    LET m == task[t].milestone
    IN  /\ m # None
        /\ milestone[m].status \in {"active", "pending"}
        /\ \A u \in TasksOf(m) \ {t} : ~ Open(u)

(***************************************************************************)
(* perform_transition on the row as the handler leaves it, and the         *)
(* milestone it completes when t was its last open task.                   *)
(***************************************************************************)
PerformTransition(t, row, to) ==
    /\ Exists(t)
    /\ Accepts(task[t].status, to, Context(t))
    /\ task' = [task EXCEPT ![t] = Entered(row, to)]
    /\ milestone' =
          IF to \in TERMINAL_STATUSES /\ LastOpenTask(t)
            THEN [milestone EXCEPT ![task[t].milestone].status = "completed"]
            ELSE milestone
    /\ UNCHANGED <<brief, links>>

Record(t, kind) == events' = [events EXCEPT ![t] = @ \union {kind}]

Unclaimed(row) == [row EXCEPT !.claimed_by = None, !.claim_lease = "none"]

-----------------------------------------------------------------------------
(* The actions of TaskViewSet.                                             *)

Submit(t) ==
    /\ PerformTransition(t, task[t],
          IF brief[t].start_review THEN "pending_start_review" ELSE "todo")
    /\ UNCHANGED events

\* Variant: a cancelled dependency counts as resolved.
ResolvedOnceTerminal(t) ==
    \A u \in Tasks : <<t, u>> \in links /\ Exists(u) => ~ Open(u)

\* resolve_dependencies: a link to a task that is not there does not count.
Resolved(t) ==
    \A u \in Tasks : <<t, u>> \in links /\ Exists(u) => task[u].status = "done"

\* What claim_task checks, under the row lock, before it claims.
MayClaim(t, a) ==
    /\ task[t].status \in {"todo", "changes_requested"}
    /\ brief[t].assigned_to \in {None, a}
    /\ <<a, t>> \in TagMatch
    /\ Resolved(t)

Claim(t, a) ==
    /\ MayClaim(t, a)
    /\ PerformTransition(t, [task[t] EXCEPT !.claimed_by = a,
                                            !.claim_lease = "live"], "doing")
    /\ Record(t, "claimed")

Unclaim(t) ==
    /\ task[t].status = "doing"
    /\ PerformTransition(t, Unclaimed(task[t]), "todo")
    /\ UNCHANGED events

\* The handler does not ask for 'doing': the status graph decides.
Complete(t) ==
    /\ PerformTransition(t, task[t],
          IF brief[t].completion_review THEN "pending_completion_review"
                                        ELSE "done")
    /\ UNCHANGED events

Fail(t) ==
    /\ PerformTransition(t, Unclaimed(task[t]), "needs_attention")
    /\ UNCHANGED events

\* On a task that already left 'integrating' the report changes nothing.
IntegrationResult(t, success) ==
    /\ task[t].status = "integrating"
    /\ PerformTransition(t, task[t],
          IF success THEN "done" ELSE "needs_attention")
    /\ IF success THEN Record(t, "integration_succeeded") ELSE UNCHANGED events

Recover(t, target) ==
    /\ task[t].status = "needs_attention"
    /\ PerformTransition(t, Unclaimed(task[t]), target)
    /\ UNCHANGED events

\* The MCP server's vtf_recover_task keeps the claim fields.
McpRecover(t, target) ==
    /\ "mcp" \in Optional
    /\ task[t].status = "needs_attention"
    /\ PerformTransition(t, task[t], target)
    /\ UNCHANGED events

Resubmit(t) ==
    /\ task[t].return_to # None
    /\ PerformTransition(t, task[t], task[t].return_to)
    /\ UNCHANGED events

Block(t) == PerformTransition(t, task[t], "blocked") /\ UNCHANGED events
Unblock(t) == PerformTransition(t, task[t], "todo") /\ UNCHANGED events
Defer(t) == PerformTransition(t, task[t], "deferred") /\ UNCHANGED events
Cancel(t) == PerformTransition(t, task[t], "cancelled") /\ UNCHANGED events

Heartbeat(t) ==
    /\ task[t].status = "doing"
    /\ task' = [task EXCEPT ![t].claim_lease = "live"]
    /\ UNCHANGED <<brief, milestone, links, events>>

\* Variant: the milestone is left as it is.
ResetTaskAlone(t, to) ==
    /\ "reset" \in Optional
    /\ Exists(t)
    /\ task' = [task EXCEPT ![t] =
                  [(IF to = "doing" THEN @ ELSE Unclaimed(@)) EXCEPT !.status = to]]
    /\ UNCHANGED <<brief, milestone, links, events>>

(***************************************************************************)
(* The administrator's force-transition: no graph, no guard, no lease, and *)
(* a completed milestone with an open task again becomes active.           *)
(***************************************************************************)
Reset(t, to) ==
    LET m == task[t].milestone
    IN  /\ "reset" \in Optional
        /\ Exists(t)
        /\ task' = [task EXCEPT ![t] =
                      [(IF to = "doing" THEN @ ELSE Unclaimed(@))
                         EXCEPT !.status = to]]
        /\ milestone' =
              IF m # None /\ to \in NON_TERMINAL_STATUSES
                THEN [milestone EXCEPT ![m].status =
                         IF @ = "completed" THEN "active" ELSE @]
                ELSE milestone
        /\ UNCHANGED <<brief, links, events>>

Dependencies(t) == {u \in Tasks : <<t, u>> \in links}

\* The tools name dependencies by key and refuse a key that is not there.
MayDependOn(t, deps) ==
    /\ {"mcp", "link"} \subseteq Optional
    /\ {t} \X deps \subseteq LinkChoices
    /\ \A u \in deps : Exists(u)

\* The MCP server's vtf_create_task and vtf_update_task do not validate the
\* task's place as the serializers do; they may also write its dependencies.
CreateTask(t, m, b, deps) ==
    /\ "create" \in Optional
    /\ ~ Exists(t)
    /\ Consistent(b, m) \/ "mcp" \in Optional
    /\ deps # {} => MayDependOn(t, deps)
    /\ task' = [task EXCEPT ![t] = Draft(m)]
    /\ brief' = [brief EXCEPT ![t] = b]
    /\ links' = links \union ({t} \X deps)
    /\ UNCHANGED <<milestone, events>>

\* PATCH of the authored columns and of the task's place in the workplan;
\* assign and unassign are the edits that change the assignee alone.
EditTask(t, m, b, deps) ==
    /\ "patch" \in Optional
    /\ Exists(t)
    /\ m # task[t].milestone => "move" \in Optional
    /\ Consistent(b, m) \/ "mcp" \in Optional
    /\ deps # Dependencies(t) => MayDependOn(t, deps)
    /\ task' = [task EXCEPT ![t].milestone = m]
    /\ brief' = [brief EXCEPT ![t] = b]
    /\ links' = (links \ ({t} \X Tasks)) \union ({t} \X deps)
    /\ UNCHANGED <<milestone, events>>

\* The serializers also accept review_return_to and claim_expires_at.
EditColumns(t, back, lease) ==
    /\ "columns" \in Optional
    /\ Exists(t)
    /\ task' = [task EXCEPT ![t].return_to = back, ![t].claim_lease = lease]
    /\ UNCHANGED <<brief, milestone, links, events>>

\* DELETE: the row goes, with its events; links to it stay, dangling.
DeleteTask(t) ==
    /\ "delete" \in Optional
    /\ Exists(t)
    /\ task' = [task EXCEPT ![t] = Absent]
    /\ events' = [events EXCEPT ![t] = {}]
    /\ UNCHANGED <<brief, milestone, links>>

-----------------------------------------------------------------------------
(* What find_claimable_tasks offers an agent that names itself and its tags. *)

\* Variant: a dependency that was cancelled holds nobody up.
UnresolvedWhileOpen(tasks) ==
    {t \in tasks : \E u \in Dependencies(t) : Exists(u) /\ Open(u)}

\* get_tasks_with_unresolved_deps looks at the tasks with links only.
Unresolved(tasks) ==
    {t \in {v \in tasks : Dependencies(v) # {}} : ~ Resolved(t)}

Claimable(a) ==
    LET ready == {t \in Tasks :
                    /\ task[t].status = "todo"
                    /\ Context(t).milestone \in {"none", "active"}}
        mine == {t \in Tasks : brief[t].assigned_to \in {None, a}}
    IN  {t \in (ready \ Unresolved(ready)) \intersect mine : <<a, t>> \in TagMatch}

-----------------------------------------------------------------------------
(* Reviews and the merge slot.                                             *)

\* Variant: the slot is thought occupied by tasks past their deadline only.
SlotNotOverdue(t) ==
    \A u \in TasksOf(task[t].milestone) \ {t} :
       task[u].status = "integrating" => task[u].integration_lease

\* take_merge_slot: nobody else in the milestone is integrating.
SlotFree(t) ==
    \A u \in TasksOf(task[t].milestone) \ {t} : task[u].status # "integrating"

Approve(t) ==
    /\ \/ /\ task[t].status = "pending_start_review"
          /\ PerformTransition(t, task[t], "todo")
       \/ /\ task[t].status = "pending_completion_review"
          /\ ~ Workgraph(t)
          /\ PerformTransition(t, task[t], "done")
       \/ /\ task[t].status = "pending_completion_review"
          /\ Workgraph(t)
          /\ SlotFree(t)
          /\ PerformTransition(t, task[t], "integrating")
    /\ UNCHANGED events

\* Variant: review_return_to is taken from the row after the transition.
RequestChangesLate(t) ==
    /\ task[t].status \in REVIEW_STATUSES
    /\ PerformTransition(t, [task[t] EXCEPT !.return_to = "changes_requested"],
                         "changes_requested")
    /\ UNCHANGED events

\* "rejected" and "changes_requested" are handled alike.
RequestChanges(t) ==
    /\ task[t].status \in REVIEW_STATUSES
    /\ PerformTransition(t, [task[t] EXCEPT !.return_to = task[t].status],
                         "changes_requested")
    /\ UNCHANGED events

-----------------------------------------------------------------------------
(* Milestones and links.                                                   *)

\* milestone_needs_integration_branch
NeedsBranch(m) ==
    \/ Cardinality(TasksOf(m)) >= 2
    \/ \E t \in TasksOf(m), u \in Tasks : <<t, u>> \in links

ActivateMilestone(m) ==
    LET over == TasksOf(m) # {} /\ \A t \in TasksOf(m) : ~ Open(t)
    IN  /\ milestone[m].status = "pending"
        /\ milestone' = [milestone EXCEPT ![m] =
              IF over THEN [@ EXCEPT !.status = "completed"]
                      ELSE [status |-> "active", branch |-> @.branch \/ NeedsBranch(m)]]
        /\ UNCHANGED <<task, brief, links, events>>

\* vtf_activate_milestone of the MCP server sets the status and no branch.
McpActivateMilestone(m) ==
    /\ "mcp" \in Optional
    /\ milestone[m].status = "pending"
    /\ milestone' = [milestone EXCEPT ![m].status = "active"]
    /\ UNCHANGED <<task, brief, links, events>>

\* The endpoint does not look at the milestone's tasks.
CompleteMilestone(m) ==
    /\ "complete_milestone" \in Optional
    /\ milestone[m].status = "active"
    /\ milestone' = [milestone EXCEPT ![m].status = "completed"]
    /\ UNCHANGED <<task, brief, links, events>>

\* The status of a milestone is a writable column.
EditMilestone(m, to) ==
    /\ "columns" \in Optional
    /\ milestone' = [milestone EXCEPT ![m].status = to]
    /\ UNCHANGED <<task, brief, links, events>>

\* DELETE cascades to the tasks; the key is then that of a new milestone.
DeleteMilestone(m) ==
    /\ "delete" \in Optional
    /\ task' = [t \in Tasks |-> IF t \in TasksOf(m) THEN Absent ELSE task[t]]
    /\ events' = [t \in Tasks |-> IF t \in TasksOf(m) THEN {} ELSE events[t]]
    /\ milestone' = [milestone EXCEPT ![m] = NewMilestone]
    /\ UNCHANGED <<brief, links>>

CreateLink(t, u) ==
    /\ "link" \in Optional
    /\ <<t, u>> \in LinkChoices \ links
    /\ Exists(t)
    /\ links' = links \union {<<t, u>>}
    /\ UNCHANGED <<task, brief, milestone, events>>

DeleteLink(t, u) ==
    /\ "link" \in Optional
    /\ <<t, u>> \in links
    /\ links' = links \ {<<t, u>>}
    /\ UNCHANGED <<task, brief, milestone, events>>

-----------------------------------------------------------------------------
(* Time and the reapers.                                                   *)

\* The deadline of a claim goes by.
LeaseRunsOut(t) ==
    /\ task[t].status = "doing" /\ task[t].claim_lease = "live"
    /\ task' = [task EXCEPT ![t].claim_lease = "expired"]
    /\ UNCHANGED <<brief, milestone, links, events>>

\* Variant: the claim is cleared and the task left where it is.
ExpireClaimsInPlace(t) ==
    /\ task[t].status = "doing" /\ task[t].claim_lease = "expired"
    /\ task' = [task EXCEPT ![t] = Unclaimed(@)]
    /\ UNCHANGED <<brief, milestone, links, events>>

ExpireStaleClaims(t) ==
    /\ task[t].status = "doing" /\ task[t].claim_lease = "expired"
    /\ PerformTransition(t, Unclaimed(task[t]), "needs_attention")
    /\ UNCHANGED events

ExpireStaleReviews(t) ==
    /\ task[t].status = "pending_completion_review"
    /\ task[t].review_lease
    /\ PerformTransition(t, [task[t] EXCEPT !.review_lease = FALSE],
                         "needs_attention")
    /\ UNCHANGED events

\* Variant: the filter of the reaper of reviews.
ExpireIntegrationsInReview(t) ==
    /\ task[t].status = "pending_completion_review" /\ task[t].integration_lease
    /\ PerformTransition(t, [task[t] EXCEPT !.integration_lease = FALSE],
                         "needs_attention")
    /\ UNCHANGED events

ExpireStaleIntegrations(t) ==
    /\ task[t].status = "integrating" /\ task[t].integration_lease
    /\ PerformTransition(t, [task[t] EXCEPT !.integration_lease = FALSE],
                         "needs_attention")
    /\ UNCHANGED events

-----------------------------------------------------------------------------
AgentNext(t) ==
    \/ \E a \in Agents : Claim(t, a)
    \/ Unclaim(t) \/ Complete(t) \/ Fail(t) \/ Heartbeat(t)
    \/ \E success \in BOOLEAN : IntegrationResult(t, success)

PeopleNext(t) ==
    \/ Submit(t) \/ Resubmit(t) \/ Approve(t) \/ RequestChanges(t)
    \/ Block(t) \/ Unblock(t) \/ Defer(t) \/ Cancel(t)
    \/ \E target \in {"todo", "draft"} :
          Recover(t, target) \/ McpRecover(t, target)

AdminNext(t) ==
    \/ \E to \in Statuses : Reset(t, to)
    \/ \E m \in Milestones \union {None}, b \in Briefs, deps \in SUBSET Tasks :
          CreateTask(t, m, b, deps) \/ EditTask(t, m, b, deps)
    \/ \E back \in ReturnTargets \union {None}, lease \in Leases :
          EditColumns(t, back, lease)
    \/ DeleteTask(t)
    \/ \E u \in Tasks : CreateLink(t, u) \/ DeleteLink(t, u)

SystemNext(t) ==
    \/ LeaseRunsOut(t)
    \/ ExpireStaleClaims(t) \/ ExpireStaleReviews(t) \/ ExpireStaleIntegrations(t)

MilestoneNext(m) ==
    \/ ActivateMilestone(m) \/ McpActivateMilestone(m) \/ CompleteMilestone(m)
    \/ \E to \in MilestoneStatuses : EditMilestone(m, to)

Next ==
    \/ \E t \in Tasks : AgentNext(t) \/ PeopleNext(t) \/ AdminNext(t) \/ SystemNext(t)
    \/ \E m \in Milestones : MilestoneNext(m) \/ DeleteMilestone(m)

Spec == Init /\ [][Next]_vars

(***************************************************************************)
(* Time passes and Celery beat runs each reaper every minute; nothing      *)
(* obliges an agent or a person to act.                                    *)
(***************************************************************************)
FairSpec ==
    /\ Spec
    /\ \A t \in Tasks :
          /\ WF_vars(LeaseRunsOut(t))
          /\ WF_vars(ExpireStaleClaims(t))
          /\ WF_vars(ExpireStaleReviews(t))
          /\ WF_vars(ExpireStaleIntegrations(t))

-----------------------------------------------------------------------------
(* Properties.                                                             *)

\* take_merge_slot serialises the merges of a milestone: of the tasks of one
\* milestone at most one is 'integrating'.
OneIntegrating ==
    \A m \in Milestones : \A t, u \in TasksOf(m) :
       task[t].status = "integrating" /\ task[u].status = "integrating" => t = u

\* Each phase a reaper watches is entered with what the reaper needs: a task
\* being worked on has a claimant and a deadline, one waiting for a verdict
\* or for a merge has the deadline of that phase.
LeasedWhileWaiting ==
    \A t \in Tasks :
       /\ task[t].status = "doing" =>
             task[t].claimed_by # None /\ task[t].claim_lease # "none"
       /\ task[t].status = "pending_completion_review" => task[t].review_lease
       /\ task[t].status = "integrating" => task[t].integration_lease

\* A done task of a milestone with an integration branch has a recorded
\* successful integration, whichever reviews its author asked for (I4).
MergedBeforeDone ==
    \A t \in Tasks :
       task[t].status = "done" /\ Workgraph(t)
          => "integration_succeeded" \in events[t]

\* Nothing is done that no agent ever claimed, as long as its author asked
\* for no review before the start.
ClaimedBeforeDone ==
    \A t \in Tasks :
       task[t].status = "done" /\ ~ brief[t].start_review
          => "claimed" \in events[t]

\* With fixed links, work follows the dependencies: a task that is being
\* done, or was done, only depends on tasks that are done.
DependencyOrder ==
    \A t, u \in Tasks :
       /\ <<t, u>> \in links
       /\ task[t].status \in {"doing", "done"}
       /\ ~ brief[t].start_review
       => task[u].status = "done"

\* Nothing starts before its milestone is activated: the tasks of a pending
\* milestone are drafts, so the integration branch is settled before work is.
PendingMeansDraft ==
    \A m \in Milestones : \A t \in TasksOf(m) :
       milestone[m].status = "pending" => task[t].status = "draft"

\* An unfinished milestone that has tasks has an open one: the milestone is
\* completed by the same handler that ends its last task.
UnfinishedHasWork ==
    \A m \in Milestones :
       milestone[m].status # "completed" /\ TasksOf(m) # {}
          => \E t \in TasksOf(m) : Open(t)

\* A completed milestone hides no open task from the claimable list: a reset
\* that reopens a task reactivates the milestone.
CompletedHasNoWork ==
    \A m \in Milestones :
       milestone[m].status = "completed" => \A t \in TasksOf(m) : ~ Open(t)

\* What an agent is offered it can have: the listing, which filters in one
\* way, names no task that the claim, which checks in another, refuses.
OfferIsClaimable ==
    \A a \in Agents : \A t \in Claimable(a) :
       MayClaim(t, a) /\ Accepts(task[t].status, "doing", Context(t))

ResetOrDeleted(t) ==
    \/ \E to \in Statuses : Reset(t, to)
    \/ DeleteTask(t)
    \/ \E m \in Milestones : DeleteMilestone(m)

\* A terminal status is left by an administrator's reset or with the row.
TerminalIsFinal ==
    [][\A t \in Tasks :
          task[t].status \in TERMINAL_STATUSES /\ task'[t].status # task[t].status
             => ResetOrDeleted(t)]_vars

\* A task an administrator reopens is not hidden from the claimable list by
\* its milestone: the same handler takes the milestone out of 'completed'.
ReopenedIsVisible ==
    [][\A t \in Tasks :
          /\ task[t].status \in TERMINAL_STATUSES
          /\ task'[t].status \in NON_TERMINAL_STATUSES
          /\ task'[t].milestone # None
          => milestone'[task'[t].milestone].status # "completed"]_vars

\* An agent that stops sending heartbeats loses the task.
StalledClaimEnds ==
    \A t \in Tasks :
       <>[](task[t].status = "doing") => []<><<Heartbeat(t)>>_vars

\* A task waiting for a verdict does not wait for ever.
StalledReviewEnds ==
    \A t \in Tasks :
       task[t].status = "pending_completion_review"
          ~> task[t].status # "pending_completion_review"

\* The merge slot of a milestone is never held for ever.
MergeSlotFrees ==
    \A m \in Milestones :
       []<>(\A t \in TasksOf(m) : task[t].status # "integrating")
=============================================================================
