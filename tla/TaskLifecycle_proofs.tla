----------------------- MODULE TaskLifecycle_proofs -----------------------
(***************************************************************************)
(* Proofs about TaskLifecycle, for any number of tasks, agents and         *)
(* milestones and any set of links.                                        *)
(***************************************************************************)
EXTENDS TaskLifecycle, TLAPS

-----------------------------------------------------------------------------
(* Facts about the state machine.                                          *)

\* A terminal status has no successor.
LEMMA TerminalHasNoSuccessor ==
    ASSUME NEW s \in TERMINAL_STATUSES
    PROVE  VALID_TRANSITIONS[s] = {}
BY DEF TERMINAL_STATUSES, VALID_TRANSITIONS

\* A row stays a row, and gets the status it enters.
LEMMA EnteredType ==
    ASSUME NEW row \in Row, NEW to \in Statuses
    PROVE  /\ Entered(row, to) \in Row
           /\ Entered(row, to).status = to
           /\ Entered(row, to).milestone = row.milestone
           /\ Entered(row, to).claimed_by = row.claimed_by
           /\ Entered(row, to).claim_lease = row.claim_lease
           /\ Entered(row, to).return_to = row.return_to
           /\ to = "pending_completion_review" => Entered(row, to).review_lease
           /\ to = "integrating" => Entered(row, to).integration_lease
BY DEF Row, Entered, Statuses

LEMMA UnclaimedType ==
    ASSUME NEW row \in Row
    PROVE  /\ Unclaimed(row) \in Row
           /\ Unclaimed(row).milestone = row.milestone
           /\ Unclaimed(row).return_to = row.return_to
BY DEF Row, Unclaimed, Leases

LEMMA StatusTypes ==
    /\ REVIEW_STATUSES \subseteq Statuses
    /\ TERMINAL_STATUSES \subseteq Statuses
    /\ NON_TERMINAL_STATUSES \subseteq Statuses
    /\ {"draft", "todo", "doing", "done", "integrating", "needs_attention",
        "changes_requested", "blocked", "deferred", "cancelled"} \subseteq Statuses
    /\ "absent" \notin Statuses
    /\ REVIEW_STATUSES \subseteq ReturnTargets /\ ReturnTargets \subseteq Statuses
BY ConstantsAssumption
   DEF ReturnTargets, REVIEW_STATUSES, TERMINAL_STATUSES, NON_TERMINAL_STATUSES, Statuses

\* What perform_transition may do to the rows and to the milestones.
LEMMA TransitionType ==
    ASSUME TypeOK, NEW t \in Tasks, NEW row \in Row, NEW to \in Statuses,
           PerformTransition(t, row, to)
    PROVE  /\ task' \in [Tasks -> Row]
           /\ brief' = brief /\ links' = links
           /\ milestone' \in [Milestones -> [status : MilestoneStatuses,
                                             branch : BOOLEAN]]
<1>1. task' \in [Tasks -> Row]
  BY EnteredType DEF TypeOK, PerformTransition
<1>2. milestone' \in [Milestones -> [status : MilestoneStatuses, branch : BOOLEAN]]
  <2>1. CASE to \in TERMINAL_STATUSES /\ LastOpenTask(t)
    <3>1. task[t].milestone \in Milestones
      BY <2>1 DEF LastOpenTask, TypeOK, Row
    <3> QED BY <2>1, <3>1 DEF PerformTransition, TypeOK, MilestoneStatuses
  <2>2. CASE ~ (to \in TERMINAL_STATUSES /\ LastOpenTask(t))
    BY <2>2 DEF PerformTransition, TypeOK
  <2> QED BY <2>1, <2>2
<1> QED BY <1>1, <1>2 DEF PerformTransition

-----------------------------------------------------------------------------
(* Type correctness.                                                       *)

LEMMA InitType == Init => TypeOK
<1> SUFFICES ASSUME Init PROVE TypeOK
  OBVIOUS
<1>1. Absent \in Row
  BY DEF Absent, Row, Leases
<1>2. \A m \in Milestones \union {None} : Draft(m) \in Row
  BY StatusTypes DEF Draft, Absent, Row, Leases
<1>3. task \in [Tasks -> Row]
  BY <1>1, <1>2, ConstantsAssumption DEF Init
<1>4. milestone \in [Milestones -> [status : MilestoneStatuses, branch : BOOLEAN]]
  BY DEF Init, NewMilestone, MilestoneStatuses
<1>5. links \subseteq LinkChoices
  BY DEF Init
<1>6. events \in [Tasks -> SUBSET EventKinds]
  BY DEF Init
<1> QED BY <1>3, <1>4, <1>5, <1>6 DEF Init, TypeOK

\* An action that is a transition, and what it does to the events, keeps the
\* types.
LEMMA MoveType ==
    ASSUME TypeOK, NEW t \in Tasks, NEW row \in Row, NEW to \in Statuses,
           PerformTransition(t, row, to),
           \/ UNCHANGED events
           \/ \E kind \in EventKinds : Record(t, kind)
    PROVE  TypeOK'
<1>1. events' \in [Tasks -> SUBSET EventKinds]
  BY DEF TypeOK, Record
<1> QED BY <1>1, TransitionType DEF TypeOK

LEMMA AgentType ==
    ASSUME TypeOK, NEW t \in Tasks, AgentNext(t)
    PROVE  TypeOK'
<1>0. task[t] \in Row /\ Unclaimed(task[t]) \in Row
  BY UnclaimedType DEF TypeOK
<1>1. ASSUME NEW a \in Agents, Claim(t, a) PROVE TypeOK'
  <2>1. [task[t] EXCEPT !.claimed_by = a, !.claim_lease = "live"] \in Row
    BY <1>0 DEF Row, Leases
  <2> QED BY <1>1, <2>1, MoveType, StatusTypes DEF Claim, EventKinds
<1>2. CASE Unclaim(t)
  BY <1>0, <1>2, MoveType, StatusTypes DEF Unclaim
<1>3. CASE Complete(t)
  BY <1>0, <1>3, MoveType, StatusTypes DEF Complete, REVIEW_STATUSES
<1>4. CASE Fail(t)
  BY <1>0, <1>4, MoveType, StatusTypes DEF Fail
<1>5. CASE Heartbeat(t)
  <2>1. [task[t] EXCEPT !.claim_lease = "live"] \in Row
    BY <1>0 DEF Row, Leases
  <2> QED BY <1>5, <2>1 DEF Heartbeat, TypeOK
<1>6. ASSUME NEW success \in BOOLEAN, IntegrationResult(t, success) PROVE TypeOK'
  BY <1>0, <1>6, MoveType, StatusTypes DEF IntegrationResult, EventKinds
<1> QED BY <1>1, <1>2, <1>3, <1>4, <1>5, <1>6 DEF AgentNext

LEMMA PeopleType ==
    ASSUME TypeOK, NEW t \in Tasks, PeopleNext(t)
    PROVE  TypeOK'
<1>0. task[t] \in Row /\ Unclaimed(task[t]) \in Row
  BY UnclaimedType DEF TypeOK
<1>1. CASE Submit(t)
  BY <1>0, <1>1, MoveType, StatusTypes DEF Submit, REVIEW_STATUSES
<1>2. CASE Resubmit(t)
  <2>1. task[t].return_to \in Statuses
    BY <1>0, <1>2, StatusTypes DEF Row, Resubmit
  <2> QED BY <1>0, <1>2, <2>1, MoveType DEF Resubmit
<1>3. CASE Approve(t)
  BY <1>0, <1>3, MoveType, StatusTypes DEF Approve
<1>4. CASE RequestChanges(t)
  <2>1. [task[t] EXCEPT !.return_to = task[t].status] \in Row
    BY <1>0, <1>4, StatusTypes DEF Row, RequestChanges
  <2> QED BY <1>4, <2>1, MoveType, StatusTypes DEF RequestChanges
<1>5. CASE Block(t)
  BY <1>0, <1>5, MoveType, StatusTypes DEF Block
<1>6. CASE Unblock(t)
  BY <1>0, <1>6, MoveType, StatusTypes DEF Unblock
<1>7. CASE Defer(t)
  BY <1>0, <1>7, MoveType, StatusTypes DEF Defer
<1>8. CASE Cancel(t)
  BY <1>0, <1>8, MoveType, StatusTypes DEF Cancel
<1>9. ASSUME NEW target \in {"todo", "draft"},
             Recover(t, target) \/ McpRecover(t, target)
      PROVE  TypeOK'
  BY <1>0, <1>9, MoveType, StatusTypes DEF Recover, McpRecover
<1> QED BY <1>1, <1>2, <1>3, <1>4, <1>5, <1>6, <1>7, <1>8, <1>9 DEF PeopleNext

LEMMA AdminType ==
    ASSUME TypeOK, NEW t \in Tasks, AdminNext(t)
    PROVE  TypeOK'
<1>0. task[t] \in Row /\ Unclaimed(task[t]) \in Row
  BY UnclaimedType DEF TypeOK
<1>1. ASSUME NEW to \in Statuses, Reset(t, to) PROVE TypeOK'
  <2> DEFINE row == IF to = "doing" THEN task[t] ELSE Unclaimed(task[t])
  <2>1. [row EXCEPT !.status = to] \in Row
    BY <1>0 DEF Row
  <2>2. task' \in [Tasks -> Row]
    BY <1>1, <2>1 DEF Reset, TypeOK
  <2>3. milestone' \in [Milestones -> [status : MilestoneStatuses, branch : BOOLEAN]]
    BY <1>1 DEF Reset, TypeOK, MilestoneStatuses
  <2> QED BY <1>1, <2>2, <2>3 DEF Reset, TypeOK
<1>2. ASSUME NEW m \in Milestones \union {None}, NEW b \in Briefs, NEW deps \in SUBSET Tasks,
             CreateTask(t, m, b, deps) \/ EditTask(t, m, b, deps)
      PROVE  TypeOK'
  <2>1. Draft(m) \in Row
    BY StatusTypes DEF Draft, Absent, Row, Leases
  <2>2. [task[t] EXCEPT !.milestone = m] \in Row
    BY <1>0 DEF Row
  <2>3. task' \in [Tasks -> Row]
    BY <1>2, <2>1, <2>2 DEF CreateTask, EditTask, TypeOK
  <2>4. deps = {} \/ deps = Dependencies(t) \/ {t} \X deps \subseteq LinkChoices
    BY <1>2 DEF CreateTask, EditTask, MayDependOn
  <2>5. {t} \X deps \subseteq LinkChoices
    <3>1. CASE deps = Dependencies(t)
      BY <3>1 DEF Dependencies, TypeOK
    <3> QED BY <2>4, <3>1
  <2>6. links' \subseteq LinkChoices
    BY <1>2, <2>5 DEF CreateTask, EditTask, TypeOK
  <2>7. brief' \in [Tasks -> Briefs]
    BY <1>2 DEF CreateTask, EditTask, TypeOK
  <2>8. UNCHANGED <<milestone, events>>
    BY <1>2 DEF CreateTask, EditTask
  <2> QED BY <2>3, <2>6, <2>7, <2>8 DEF TypeOK
<1>3. CASE DeleteTask(t)
  <2>1. Absent \in Row
    BY DEF Absent, Row, Leases
  <2> QED BY <1>3, <2>1 DEF DeleteTask, TypeOK
<1>4. ASSUME NEW u \in Tasks, CreateLink(t, u) \/ DeleteLink(t, u) PROVE TypeOK'
  BY <1>4 DEF CreateLink, DeleteLink, TypeOK
<1>5. ASSUME NEW back \in ReturnTargets \union {None}, NEW lease \in Leases,
             EditColumns(t, back, lease)
      PROVE  TypeOK'
  <2>1. [task[t] EXCEPT !.return_to = back, !.claim_lease = lease] \in Row
    BY <1>0 DEF Row
  <2> QED BY <1>5, <2>1 DEF EditColumns, TypeOK
<1> QED BY <1>1, <1>2, <1>3, <1>4, <1>5 DEF AdminNext

LEMMA SystemType ==
    ASSUME TypeOK, NEW t \in Tasks, SystemNext(t)
    PROVE  TypeOK'
<1>0. task[t] \in Row /\ Unclaimed(task[t]) \in Row
  BY UnclaimedType DEF TypeOK
<1>1. CASE LeaseRunsOut(t)
  <2>1. [task[t] EXCEPT !.claim_lease = "expired"] \in Row
    BY <1>0 DEF Row, Leases
  <2> QED BY <1>1, <2>1 DEF LeaseRunsOut, TypeOK
<1>2. CASE ExpireStaleClaims(t)
  BY <1>0, <1>2, MoveType, StatusTypes DEF ExpireStaleClaims
<1>3. CASE ExpireStaleReviews(t)
  <2>1. [task[t] EXCEPT !.review_lease = FALSE] \in Row
    BY <1>0 DEF Row
  <2> QED BY <1>3, <2>1, MoveType, StatusTypes DEF ExpireStaleReviews
<1>4. CASE ExpireStaleIntegrations(t)
  <2>1. [task[t] EXCEPT !.integration_lease = FALSE] \in Row
    BY <1>0 DEF Row
  <2> QED BY <1>4, <2>1, MoveType, StatusTypes DEF ExpireStaleIntegrations
<1> QED BY <1>1, <1>2, <1>3, <1>4 DEF SystemNext

LEMMA MilestoneType ==
    ASSUME TypeOK, NEW m \in Milestones, MilestoneNext(m)
    PROVE  TypeOK'
<1>1. milestone' \in [Milestones -> [status : MilestoneStatuses, branch : BOOLEAN]]
  <2>1. CASE ActivateMilestone(m)
    <3>1. NeedsBranch(m) \in BOOLEAN
      BY DEF NeedsBranch
    <3> QED BY <2>1, <3>1 DEF ActivateMilestone, TypeOK, MilestoneStatuses
  <2>2. CASE McpActivateMilestone(m)
    BY <2>2 DEF McpActivateMilestone, TypeOK, MilestoneStatuses
  <2>3. CASE CompleteMilestone(m)
    BY <2>3 DEF CompleteMilestone, TypeOK, MilestoneStatuses
  <2>4. ASSUME NEW to \in MilestoneStatuses, EditMilestone(m, to)
        PROVE  milestone' \in [Milestones -> [status : MilestoneStatuses,
                                              branch : BOOLEAN]]
    BY <2>4 DEF EditMilestone, TypeOK
  <2> QED BY <2>1, <2>2, <2>3, <2>4 DEF MilestoneNext
<1> QED BY <1>1 DEF MilestoneNext, ActivateMilestone, McpActivateMilestone,
                    CompleteMilestone, EditMilestone, TypeOK

LEMMA CascadeType ==
    ASSUME TypeOK, NEW m \in Milestones, DeleteMilestone(m)
    PROVE  TypeOK'
<1>1. Absent \in Row
  BY DEF Absent, Row, Leases
<1>2. NewMilestone \in [status : MilestoneStatuses, branch : BOOLEAN]
  BY DEF NewMilestone, MilestoneStatuses
<1> QED BY <1>1, <1>2 DEF DeleteMilestone, TypeOK

LEMMA NextType == TypeOK /\ [Next]_vars => TypeOK'
<1> SUFFICES ASSUME TypeOK, [Next]_vars PROVE TypeOK'
  OBVIOUS
<1>1. CASE UNCHANGED vars
  BY <1>1 DEF TypeOK, vars
<1>2. CASE Next
  BY <1>2, AgentType, PeopleType, AdminType, SystemType, MilestoneType, CascadeType
     DEF Next
<1> QED BY <1>1, <1>2

\* Every reachable state has the types of the database's columns: no handler
\* leaves a row with a status, a claimant or a milestone that is none.
THEOREM TypeCorrect == Spec => []TypeOK
BY InitType, NextType, PTL DEF Spec

-----------------------------------------------------------------------------
(***************************************************************************)
(* The steps that matter to the invariants.  Without a PATCH that moves a  *)
(* task to another milestone or writes a column the handlers maintain, a   *)
(* step takes one task through perform_transition, or leaves the standing  *)
(* of the tasks alone, or adds or removes tasks, or is a step of a         *)
(* milestone or an administrator's reset.                                  *)
(***************************************************************************)
Maintained == "move" \notin Optional /\ "columns" \notin Optional

Confined == "reset" \notin Optional /\ Maintained

\* Besides the status graph and its guards, which PerformTransition has, what
\* leads to a status and what is recorded on the way.
Move(t, row, to) ==
    /\ PerformTransition(t, row, to)
    /\ row.milestone = task[t].milestone
    /\ \/ row.return_to = task[t].return_to
       \/ row.return_to = task[t].status /\ task[t].status \in REVIEW_STATUSES
    /\ to = "integrating" => SlotFree(t)
    /\ to = "doing" => /\ row.claimed_by # None /\ row.claim_lease # "none"
                       /\ Resolved(t)
                       /\ "claimed" \in events'[t]
    /\ to = "pending_start_review" =>
          brief[t].start_review \/ task[t].return_to = to
    /\ to = "pending_completion_review" =>
          brief[t].completion_review \/ task[t].return_to = to
    /\ to = "done" /\ task[t].status = "integrating" =>
          ~ brief[t].completion_review \/ "integration_succeeded" \in events'[t]
    /\ \A u \in Tasks : events[u] \subseteq events'[u]

\* The columns an invariant looks at: all but the claimant's lease, of which
\* only its presence counts.
SameStanding(t) ==
    /\ task'[t].status = task[t].status
    /\ task'[t].milestone = task[t].milestone
    /\ task'[t].claimed_by = task[t].claimed_by
    /\ task[t].claim_lease # "none" => task'[t].claim_lease # "none"
    /\ task'[t].review_lease = task[t].review_lease
    /\ task'[t].integration_lease = task[t].integration_lease
    /\ task'[t].return_to = task[t].return_to

\* Authored columns and links may be edited where the instance allows it.
Standstill ==
    /\ \A t \in Tasks : SameStanding(t)
    /\ milestone' = milestone /\ events' = events
    /\ "patch" \in Optional \/ brief' = brief
    /\ "link" \in Optional \/ links' = links

\* Tasks go; a milestone that changes has none left and starts again.
Removal ==
    /\ "delete" \in Optional
    /\ \A t \in Tasks :
          \/ task'[t] = Absent
          \/ task'[t] = task[t] /\ events'[t] = events[t]
    /\ \A m \in Milestones :
          \/ milestone'[m] = milestone[m]
          \/ /\ milestone'[m] = NewMilestone
             /\ \A t \in Tasks : task'[t].milestone # m
    /\ brief' = brief /\ links' = links

\* What IntegrationResult and Claim record, and what the others do not.
LEMMA EventsGrow ==
    ASSUME TypeOK, NEW t \in Tasks,
           \/ UNCHANGED events
           \/ \E kind \in EventKinds : Record(t, kind)
    PROVE  \A u \in Tasks : events[u] \subseteq events'[u]
BY DEF TypeOK, Record

LEMMA AgentSteps ==
    ASSUME TypeOK, NEW t \in Tasks, AgentNext(t)
    PROVE  \/ \E row \in Row, to \in Statuses : Move(t, row, to)
           \/ Standstill
<1>0. /\ task[t] \in Row
      /\ Unclaimed(task[t]) \in Row
      /\ Unclaimed(task[t]).milestone = task[t].milestone
      /\ Unclaimed(task[t]).return_to = task[t].return_to
  BY UnclaimedType DEF TypeOK
<1>1. ASSUME NEW a \in Agents, Claim(t, a)
      PROVE  \E row \in Row, to \in Statuses : Move(t, row, to)
  <2> DEFINE row == [task[t] EXCEPT !.claimed_by = a, !.claim_lease = "live"]
  <2>1. /\ row \in Row
        /\ row.milestone = task[t].milestone
        /\ row.return_to = task[t].return_to
        /\ row.claimed_by # None /\ row.claim_lease # "none"
    BY <1>0, ConstantsAssumption DEF Row, Leases
  <2>2. "claimed" \in events'[t] /\ \A u \in Tasks : events[u] \subseteq events'[u]
    BY <1>1, EventsGrow DEF Claim, Record, EventKinds, TypeOK
  <2>3. Resolved(t) /\ PerformTransition(t, row, "doing")
    BY <1>1 DEF Claim, MayClaim
  <2> HIDE DEF row
  <2>4. Move(t, row, "doing")
    BY <2>1, <2>2, <2>3 DEF Move
  <2> QED BY <2>1, <2>4, StatusTypes
<1>2. CASE Unclaim(t)
  BY <1>0, <1>2, StatusTypes DEF Unclaim, Move
<1>3. CASE Complete(t)
  <2>1. PICK to \in {"pending_completion_review", "done"} :
           /\ PerformTransition(t, task[t], to)
           /\ brief[t].completion_review <=> to = "pending_completion_review"
    BY <1>3 DEF Complete
  <2>2. UNCHANGED events
    BY <1>3 DEF Complete
  <2>3. Move(t, task[t], to)
    BY <2>1, <2>2 DEF Move
  <2> QED BY <1>0, <2>3, StatusTypes DEF REVIEW_STATUSES
<1>4. CASE Fail(t)
  BY <1>0, <1>4, StatusTypes DEF Fail, Move
<1>5. CASE Heartbeat(t)
  BY <1>0, <1>5 DEF Heartbeat, Standstill, SameStanding, TypeOK, Row
<1>6. ASSUME NEW success \in BOOLEAN, IntegrationResult(t, success)
      PROVE  \E row \in Row, to \in Statuses : Move(t, row, to)
  <2>1. \A u \in Tasks : events[u] \subseteq events'[u]
    BY <1>6, EventsGrow DEF IntegrationResult, EventKinds
  <2>2. CASE success
    <3>1. "integration_succeeded" \in events'[t]
      BY <1>6, <2>2 DEF IntegrationResult, Record, TypeOK
    <3>2. Move(t, task[t], "done")
      BY <1>6, <2>1, <2>2, <3>1 DEF IntegrationResult, Move
    <3> QED BY <1>0, <3>2, StatusTypes
  <2>3. CASE ~ success
    <3>1. Move(t, task[t], "needs_attention")
      BY <1>6, <2>1, <2>3 DEF IntegrationResult, Move
    <3> QED BY <1>0, <3>1, StatusTypes
  <2> QED BY <2>2, <2>3
<1> QED BY <1>1, <1>2, <1>3, <1>4, <1>5, <1>6 DEF AgentNext

LEMMA PeopleSteps ==
    ASSUME TypeOK, NEW t \in Tasks, PeopleNext(t), Maintained \/ ~ Resubmit(t)
    PROVE  \E row \in Row, to \in Statuses : Move(t, row, to)
<1>0. /\ task[t] \in Row
      /\ Unclaimed(task[t]) \in Row
      /\ Unclaimed(task[t]).milestone = task[t].milestone
      /\ Unclaimed(task[t]).return_to = task[t].return_to
  BY UnclaimedType DEF TypeOK
<1>1. CASE Submit(t)
  <2>1. PICK to \in {"pending_start_review", "todo"} :
           /\ PerformTransition(t, task[t], to)
           /\ to = "pending_start_review" => brief[t].start_review
    BY <1>1 DEF Submit
  <2>2. UNCHANGED events
    BY <1>1 DEF Submit
  <2>3. Move(t, task[t], to)
    BY <2>1, <2>2 DEF Move
  <2> QED BY <1>0, <2>3, StatusTypes DEF REVIEW_STATUSES
<1>2. CASE Resubmit(t)
  <2>1. task[t].return_to \in REVIEW_STATUSES
    BY <1>0, <1>2 DEF Row, Resubmit, ReturnTargets, Maintained
  <2>2. Move(t, task[t], task[t].return_to)
    BY <1>2, <2>1 DEF Resubmit, Move, REVIEW_STATUSES
  <2> QED BY <1>0, <2>1, <2>2, StatusTypes
<1>3. CASE Approve(t)
  BY <1>0, <1>3, StatusTypes DEF Approve, Move
<1>4. CASE RequestChanges(t)
  <2> DEFINE row == [task[t] EXCEPT !.return_to = task[t].status]
  <2>1. /\ row \in Row /\ row.milestone = task[t].milestone
        /\ row.return_to = task[t].status /\ task[t].status \in REVIEW_STATUSES
    BY <1>0, <1>4, StatusTypes DEF Row, RequestChanges
  <2>2. UNCHANGED events /\ PerformTransition(t, row, "changes_requested")
    BY <1>4 DEF RequestChanges
  <2> HIDE DEF row
  <2>3. Move(t, row, "changes_requested")
    BY <2>1, <2>2 DEF Move
  <2> QED BY <2>1, <2>3, StatusTypes
<1>5. CASE Block(t)
  BY <1>0, <1>5, StatusTypes DEF Block, Move
<1>6. CASE Unblock(t)
  BY <1>0, <1>6, StatusTypes DEF Unblock, Move
<1>7. CASE Defer(t)
  BY <1>0, <1>7, StatusTypes DEF Defer, Move
<1>8. CASE Cancel(t)
  BY <1>0, <1>8, StatusTypes DEF Cancel, Move
<1>9. ASSUME NEW target \in {"todo", "draft"},
             Recover(t, target) \/ McpRecover(t, target)
      PROVE  \E row \in Row, to \in Statuses : Move(t, row, to)
  <2>1. PICK row \in {task[t], Unclaimed(task[t])} :
           PerformTransition(t, row, target)
    BY <1>9 DEF Recover, McpRecover
  <2>2. UNCHANGED events
    BY <1>9 DEF Recover, McpRecover
  <2>3. Move(t, row, target)
    BY <1>0, <2>1, <2>2 DEF Move
  <2> QED BY <1>0, <2>3, StatusTypes
<1> QED BY <1>1, <1>2, <1>3, <1>4, <1>5, <1>6, <1>7, <1>8, <1>9 DEF PeopleNext

LEMMA SystemSteps ==
    ASSUME TypeOK, NEW t \in Tasks, SystemNext(t)
    PROVE  \/ \E row \in Row, to \in Statuses : Move(t, row, to)
           \/ Standstill
<1>0. /\ task[t] \in Row
      /\ Unclaimed(task[t]) \in Row
      /\ Unclaimed(task[t]).milestone = task[t].milestone
      /\ Unclaimed(task[t]).return_to = task[t].return_to
  BY UnclaimedType DEF TypeOK
<1>1. CASE LeaseRunsOut(t)
  BY <1>0, <1>1 DEF LeaseRunsOut, Standstill, SameStanding, TypeOK, Row
<1>2. CASE ExpireStaleClaims(t)
  BY <1>0, <1>2, StatusTypes DEF ExpireStaleClaims, Move
<1>3. CASE ExpireStaleReviews(t)
  <2> DEFINE row == [task[t] EXCEPT !.review_lease = FALSE]
  <2>1. /\ row \in Row /\ row.milestone = task[t].milestone
        /\ row.return_to = task[t].return_to
    BY <1>0 DEF Row
  <2>2. Move(t, row, "needs_attention")
    BY <1>3, <2>1 DEF ExpireStaleReviews, Move
  <2> QED BY <2>1, <2>2, StatusTypes
<1>4. CASE ExpireStaleIntegrations(t)
  <2> DEFINE row == [task[t] EXCEPT !.integration_lease = FALSE]
  <2>1. /\ row \in Row /\ row.milestone = task[t].milestone
        /\ row.return_to = task[t].return_to
    BY <1>0 DEF Row
  <2>2. Move(t, row, "needs_attention")
    BY <1>4, <2>1 DEF ExpireStaleIntegrations, Move
  <2> QED BY <2>1, <2>2, StatusTypes
<1> QED BY <1>1, <1>2, <1>3, <1>4 DEF SystemNext

\* Saving the dependencies a task has leaves the links as they are.
LEMMA SameLinks ==
    ASSUME TypeOK, NEW t \in Tasks
    PROVE  (links \ ({t} \X Tasks)) \union ({t} \X Dependencies(t)) = links
BY ConstantsAssumption DEF TypeOK, Dependencies

LEMMA AdminSteps ==
    ASSUME TypeOK, Maintained, NEW t \in Tasks, AdminNext(t)
    PROVE  \/ Standstill
           \/ \E m \in Milestones \union {None}, b \in Briefs,
                 deps \in SUBSET Tasks : CreateTask(t, m, b, deps)
           \/ Removal
           \/ \E to \in Statuses : Reset(t, to)
<1>1. ASSUME NEW m \in Milestones \union {None}, NEW b \in Briefs,
             NEW deps \in SUBSET Tasks, EditTask(t, m, b, deps)
      PROVE  Standstill
  <2>1. \A u \in Tasks : SameStanding(u)
    BY <1>1 DEF EditTask, Maintained, SameStanding, TypeOK, Row
  <2>2. "link" \in Optional \/ links' = links
    BY <1>1, SameLinks DEF EditTask, MayDependOn
  <2> QED BY <1>1, <2>1, <2>2 DEF EditTask, Standstill
<1>2. ASSUME NEW u \in Tasks, CreateLink(t, u) \/ DeleteLink(t, u)
      PROVE  Standstill
  BY <1>2 DEF CreateLink, DeleteLink, Standstill, SameStanding
<1>3. ASSUME NEW back \in ReturnTargets \union {None}, NEW lease \in Leases,
             EditColumns(t, back, lease)
      PROVE  FALSE
  BY <1>3 DEF EditColumns, Maintained
<1>4. CASE DeleteTask(t)
  BY <1>4 DEF DeleteTask, Removal, TypeOK
<1> QED BY <1>1, <1>2, <1>3, <1>4 DEF AdminNext

\* A milestone goes with its tasks.
LEMMA CascadeSteps ==
    ASSUME TypeOK, NEW m \in Milestones, DeleteMilestone(m)
    PROVE  Removal
<1>1. \A t \in Tasks :
         IF task[t].milestone = m
           THEN task'[t] = Absent
           ELSE task'[t] = task[t] /\ events'[t] = events[t]
  BY DEF DeleteMilestone, TasksOf
<1>2. /\ \A n \in Milestones \ {m} : milestone'[n] = milestone[n]
      /\ milestone'[m] = NewMilestone
  BY DEF DeleteMilestone, TypeOK
<1>3. \A t \in Tasks : task'[t].milestone # m
  BY <1>1, ConstantsAssumption DEF Absent
<1> QED BY <1>1, <1>2, <1>3 DEF DeleteMilestone, Removal

\* A milestone is changed on its own, once activated or by hand; its branch
\* is settled when it is activated.
LEMMA MilestoneSteps ==
    ASSUME TypeOK, Maintained, NEW n \in Milestones, MilestoneNext(n)
    PROVE  /\ task' = task /\ UNCHANGED <<brief, links, events>>
           /\ \A m \in Milestones :
                 /\ milestone'[m].status = "pending" => milestone[m].status = "pending"
                 /\ milestone'[m].status # "completed" => milestone[m].status # "completed"
                 /\ milestone'[m].status = "completed" =>
                       \/ milestone[m].status = "completed"
                       \/ "complete_milestone" \in Optional
                       \/ \A t \in TasksOf(m) : ~ Open(t)
                 /\ milestone'[m].branch =>
                       milestone[m].branch \/ milestone[m].status = "pending"
<1>1. CASE ActivateMilestone(n)
  BY <1>1 DEF ActivateMilestone, TypeOK
<1>2. CASE McpActivateMilestone(n)
  BY <1>2 DEF McpActivateMilestone, TypeOK
<1>3. CASE CompleteMilestone(n)
  BY <1>3 DEF CompleteMilestone, TypeOK
<1> QED BY <1>1, <1>2, <1>3 DEF MilestoneNext, EditMilestone, Maintained

\* Every step is one of these six.
LEMMA StepCasesWithReset ==
    ASSUME TypeOK, Maintained, [Next]_vars
    PROVE  \/ \E t \in Tasks, row \in Row, to \in Statuses : Move(t, row, to)
           \/ Standstill
           \/ \E t \in Tasks, m \in Milestones \union {None}, b \in Briefs,
                 deps \in SUBSET Tasks : CreateTask(t, m, b, deps)
           \/ Removal
           \/ \E m \in Milestones : MilestoneNext(m)
           \/ \E t \in Tasks, to \in Statuses : Reset(t, to)
<1>1. CASE UNCHANGED vars
  BY <1>1 DEF vars, Standstill, SameStanding
<1>2. CASE Next
  BY <1>2, AgentSteps, PeopleSteps, AdminSteps, SystemSteps, CascadeSteps
     DEF Next
<1> QED BY <1>1, <1>2

\* Where nobody resets a task, one of these five.
LEMMA StepCases ==
    ASSUME TypeOK, Confined, [Next]_vars
    PROVE  \/ \E t \in Tasks, row \in Row, to \in Statuses : Move(t, row, to)
           \/ Standstill
           \/ \E t \in Tasks, m \in Milestones \union {None}, b \in Briefs,
                 deps \in SUBSET Tasks : CreateTask(t, m, b, deps)
           \/ Removal
           \/ \E m \in Milestones : MilestoneNext(m)
BY StepCasesWithReset DEF Confined, Reset

\* What a move does to the rows: its own task enters the status, the others
\* keep theirs.
LEMMA MoveRows ==
    ASSUME TypeOK, NEW t \in Tasks, NEW row \in Row, NEW to \in Statuses,
           Move(t, row, to)
    PROVE  /\ task'[t] = Entered(row, to)
           /\ task'[t].status = to
           /\ task'[t].return_to = row.return_to
           /\ \A u \in Tasks : task'[u].milestone = task[u].milestone
           /\ \A u \in Tasks \ {t} : task'[u] = task[u]
           /\ brief' = brief /\ links' = links
BY EnteredType DEF Move, PerformTransition, TypeOK

\* What it does to the milestones: it completes its own or changes none.
LEMMA MoveMilestones ==
    ASSUME TypeOK, NEW t \in Tasks, NEW row \in Row, NEW to \in Statuses,
           Move(t, row, to), NEW m \in Milestones
    PROVE  /\ milestone'[m].branch = milestone[m].branch
           /\ \/ milestone'[m] = milestone[m]
              \/ /\ milestone'[m].status = "completed"
                 /\ to \in TERMINAL_STATUSES
                 /\ task[t].milestone = m /\ LastOpenTask(t)
BY DEF Move, PerformTransition, TypeOK

-----------------------------------------------------------------------------
(* One merge at a time.                                                    *)

LEMMA OneIntegratingStep ==
    ASSUME TypeOK, OneIntegrating, Confined, [Next]_vars
    PROVE  OneIntegrating'
<1>0. SUFFICES ASSUME NEW m \in Milestones, NEW t \in TasksOf(m)', NEW u \in TasksOf(m)',
                      task'[t].status = "integrating", task'[u].status = "integrating"
               PROVE  t = u
  BY DEF OneIntegrating
<1>1. t \in Tasks /\ u \in Tasks
  BY DEF TasksOf
<1>2. ASSUME NEW s \in Tasks, NEW row \in Row, NEW to \in Statuses, Move(s, row, to)
      PROVE  t = u
  <2>1. t \in TasksOf(m) /\ u \in TasksOf(m)
    BY <1>1, <1>2, MoveRows DEF TasksOf
  <2>2. CASE t # s /\ u # s
    <3>1. task[t].status = "integrating" /\ task[u].status = "integrating"
      BY <1>0, <1>1, <1>2, <2>2, MoveRows
    <3> QED BY <2>1, <3>1 DEF OneIntegrating
  <2>3. CASE t = s \/ u = s
    <3>1. to = "integrating"
      BY <1>0, <1>2, <2>3, MoveRows
    <3>2. \A v \in TasksOf(m) \ {s} : task[v].status # "integrating"
      BY <1>2, <2>1, <2>3, <3>1 DEF Move, SlotFree, TasksOf
    <3>3. \A v \in TasksOf(m) \ {s} : task'[v].status # "integrating"
      BY <1>2, <3>2, MoveRows DEF TasksOf
    <3> QED BY <1>0, <2>1, <2>3, <3>3
  <2> QED BY <2>2, <2>3
<1>3. CASE Standstill
  BY <1>0, <1>1, <1>3 DEF Standstill, SameStanding, OneIntegrating, TasksOf
<1>4. ASSUME NEW s \in Tasks, NEW n \in Milestones \union {None}, NEW b \in Briefs, NEW deps \in SUBSET Tasks,
             CreateTask(s, n, b, deps)
      PROVE  t = u
  <2>1. task'[s].status = "draft" /\ \A v \in Tasks \ {s} : task'[v] = task[v]
    BY <1>4 DEF CreateTask, Draft, Absent, TypeOK
  <2> QED BY <1>0, <1>1, <2>1 DEF OneIntegrating, TasksOf
<1>5. CASE Removal
  <2>1. task'[t] = task[t] /\ task'[u] = task[u]
    BY <1>0, <1>1, <1>5 DEF Removal, Absent
  <2> QED BY <1>0, <1>1, <2>1 DEF OneIntegrating, TasksOf
<1>6. ASSUME NEW n \in Milestones, MilestoneNext(n) PROVE t = u
  BY <1>0, <1>6, MilestoneSteps DEF OneIntegrating, TasksOf, Confined
<1> QED BY <1>2, <1>3, <1>4, <1>5, <1>6, StepCases

\* The tasks of the first state are drafts, or not there yet.
LEMMA InitDrafts ==
    ASSUME Init, NEW t \in Tasks
    PROVE  task[t].status \in {"draft", "absent"}
<1>1. PICK home \in [Seeded -> Milestones \union {None}] :
         task = [u \in Tasks |-> IF u \in Seeded THEN Draft(home[u]) ELSE Absent]
  BY DEF Init
<1>2. \A m : Draft(m).status = "draft"
  BY DEF Draft, Absent
<1>3. Absent.status = "absent"
  BY DEF Absent
<1> QED BY <1>1, <1>2, <1>3

\* A task that is not there has no milestone.
LEMMA InitAbsent ==
    ASSUME Init, NEW t \in Tasks, task[t].status = "absent"
    PROVE  task[t].milestone = None
<1>1. PICK home \in [Seeded -> Milestones \union {None}] :
         task = [u \in Tasks |-> IF u \in Seeded THEN Draft(home[u]) ELSE Absent]
  BY DEF Init
<1>2. \A m : Draft(m).status = "draft"
  BY DEF Draft, Absent
<1> QED BY <1>1, <1>2 DEF Absent

\* take_merge_slot keeps a milestone to one merge at a time, for any number
\* of tasks and milestones, as long as nobody resets a task into
\* 'integrating' or moves one there from another milestone.
THEOREM MergesAreSerial == Confined => (Spec => []OneIntegrating)
<1> SUFFICES ASSUME Confined PROVE Spec => []OneIntegrating
  OBVIOUS
<1>1. Init => OneIntegrating
  BY InitDrafts DEF OneIntegrating, TasksOf
<1>2. TypeOK /\ OneIntegrating /\ [Next]_vars => OneIntegrating'
  BY OneIntegratingStep
<1> QED BY <1>1, <1>2, InitType, NextType, PTL DEF Spec

-----------------------------------------------------------------------------
(* Every watched phase has what its reaper needs.                          *)

\* The phases a reaper watches, for one task.
Watched(row) ==
    /\ row.status = "doing" => row.claimed_by # None /\ row.claim_lease # "none"
    /\ row.status = "pending_completion_review" => row.review_lease
    /\ row.status = "integrating" => row.integration_lease

LEMMA WatchedStep ==
    ASSUME TypeOK, LeasedWhileWaiting, Confined, [Next]_vars
    PROVE  LeasedWhileWaiting'
<1>0. SUFFICES ASSUME NEW t \in Tasks PROVE Watched(task'[t])
  BY DEF LeasedWhileWaiting, Watched
<1>1. Watched(task[t])
  BY DEF LeasedWhileWaiting, Watched
<1>2. ASSUME NEW s \in Tasks, NEW row \in Row, NEW to \in Statuses, Move(s, row, to)
      PROVE  Watched(task'[t])
  <2>1. CASE t = s
    BY <1>2, <2>1, MoveRows, EnteredType DEF Watched, Move
  <2>2. CASE t # s
    BY <1>1, <1>2, <2>2, MoveRows
  <2> QED BY <2>1, <2>2
<1>3. CASE Standstill
  BY <1>1, <1>3 DEF Standstill, SameStanding, Watched
<1>4. ASSUME NEW s \in Tasks, NEW m \in Milestones \union {None}, NEW b \in Briefs, NEW deps \in SUBSET Tasks,
             CreateTask(s, m, b, deps)
      PROVE  Watched(task'[t])
  BY <1>1, <1>4 DEF CreateTask, Draft, Absent, TypeOK, Watched
<1>5. CASE Removal
  BY <1>1, <1>5 DEF Removal, Absent, Watched
<1>6. ASSUME NEW m \in Milestones, MilestoneNext(m) PROVE Watched(task'[t])
  BY <1>1, <1>6, MilestoneSteps DEF Confined
<1> QED BY <1>2, <1>3, <1>4, <1>5, <1>6, StepCases

\* No order of handlers leaves a task in work, under review or merging
\* without the deadline its reaper looks for.
THEOREM WaitingIsWatched == Confined => (Spec => []LeasedWhileWaiting)
<1> SUFFICES ASSUME Confined PROVE Spec => []LeasedWhileWaiting
  OBVIOUS
<1>1. Init => LeasedWhileWaiting
  BY InitDrafts DEF LeasedWhileWaiting
<1>2. TypeOK /\ LeasedWhileWaiting /\ [Next]_vars => LeasedWhileWaiting'
  BY WatchedStep
<1> QED BY <1>1, <1>2, InitType, NextType, PTL DEF Spec

-----------------------------------------------------------------------------
(* Milestones and their tasks.                                             *)

LEMMA PendingStep ==
    ASSUME TypeOK, PendingMeansDraft, Confined, [Next]_vars
    PROVE  PendingMeansDraft'
<1>0. SUFFICES ASSUME NEW m \in Milestones, NEW t \in TasksOf(m)',
                      milestone'[m].status = "pending"
               PROVE  task'[t].status = "draft"
  BY DEF PendingMeansDraft
<1>1. t \in Tasks /\ task'[t].milestone = m
  BY DEF TasksOf
<1>2. ASSUME NEW s \in Tasks, NEW row \in Row, NEW to \in Statuses, Move(s, row, to)
      PROVE  task'[t].status = "draft"
  <2>1. milestone[m].status = "pending"
    BY <1>0, <1>2, MoveMilestones
  <2>2. task[t].milestone = m /\ task[t].status = "draft"
    BY <1>1, <1>2, <2>1, MoveRows DEF PendingMeansDraft, TasksOf
  <2>3. CASE t = s
    <3>1. Context(t).milestone = "pending"
      BY <2>1, <2>2, ConstantsAssumption DEF Context
    <3>2. ~ Accepts(task[t].status, to, Context(t))
      BY <2>2, <3>1 DEF Accepts, ExitGuards, guard_milestone_active
    <3> QED BY <1>2, <2>3, <3>2 DEF Move, PerformTransition
  <2>4. CASE t # s
    BY <1>1, <1>2, <2>2, <2>4, MoveRows
  <2> QED BY <2>3, <2>4
<1>3. CASE Standstill
  BY <1>0, <1>1, <1>3 DEF Standstill, SameStanding, PendingMeansDraft, TasksOf
<1>4. ASSUME NEW s \in Tasks, NEW n \in Milestones \union {None}, NEW b \in Briefs, NEW deps \in SUBSET Tasks,
             CreateTask(s, n, b, deps)
      PROVE  task'[t].status = "draft"
  <2>1. /\ task'[s].status = "draft" /\ milestone' = milestone
        /\ \A v \in Tasks \ {s} : task'[v] = task[v]
    BY <1>4 DEF CreateTask, Draft, Absent, TypeOK
  <2> QED BY <1>0, <1>1, <2>1 DEF PendingMeansDraft, TasksOf
<1>5. CASE Removal
  <2>1. task'[t] = task[t] /\ milestone'[m] = milestone[m]
    BY <1>1, <1>5, ConstantsAssumption DEF Removal, Absent
  <2> QED BY <1>0, <1>1, <2>1 DEF PendingMeansDraft, TasksOf
<1>6. ASSUME NEW n \in Milestones, MilestoneNext(n) PROVE task'[t].status = "draft"
  BY <1>0, <1>1, <1>6, MilestoneSteps DEF PendingMeansDraft, TasksOf, Confined
<1> QED BY <1>2, <1>3, <1>4, <1>5, <1>6, StepCases

LEMMA InitPending == Init => PendingMeansDraft
<1> SUFFICES ASSUME Init, NEW m \in Milestones, NEW t \in TasksOf(m)
             PROVE  task[t].status = "draft"
  BY DEF PendingMeansDraft
<1>1. task[t].milestone \in Milestones /\ t \in Tasks
  BY DEF TasksOf
<1>2. task[t].status \in {"draft", "absent"}
  BY <1>1, InitDrafts
<1>3. task[t].status # "absent"
  BY <1>1, InitAbsent, ConstantsAssumption
<1> QED BY <1>2, <1>3

\* Nothing leaves draft in a milestone before it is activated, by whatever
\* order of handlers: guard_milestone_active guards the only way out.
THEOREM PendingHoldsDrafts == Confined => (Spec => []PendingMeansDraft)
<1> SUFFICES ASSUME Confined PROVE Spec => []PendingMeansDraft
  OBVIOUS
<1>1. Init => PendingMeansDraft
  BY InitPending
<1>2. TypeOK /\ PendingMeansDraft /\ [Next]_vars => PendingMeansDraft'
  BY PendingStep
<1> QED BY <1>1, <1>2, InitType, NextType, PTL DEF Spec

LEMMA UnfinishedStep ==
    ASSUME TypeOK, UnfinishedHasWork, Confined, "delete" \notin Optional, [Next]_vars
    PROVE  UnfinishedHasWork'
<1>0. SUFFICES ASSUME NEW m \in Milestones, milestone'[m].status # "completed",
                      TasksOf(m)' # {}
               PROVE  \E t \in TasksOf(m)' : Open(t)'
  BY DEF UnfinishedHasWork
<1>1. ASSUME NEW s \in Tasks, NEW row \in Row, NEW to \in Statuses, Move(s, row, to)
      PROVE  \E t \in TasksOf(m)' : Open(t)'
  <2>1. TasksOf(m)' = TasksOf(m) /\ milestone'[m] = milestone[m]
    BY <1>0, <1>1, MoveRows, MoveMilestones DEF TasksOf
  <2>2. PICK t \in TasksOf(m) : Open(t)
    BY <1>0, <2>1 DEF UnfinishedHasWork
  <2>3. CASE t # s
    BY <1>1, <2>1, <2>2, <2>3, MoveRows DEF Open, TasksOf
  <2>4. CASE t = s /\ to \notin TERMINAL_STATUSES
    <3>1. task'[t].status \in NON_TERMINAL_STATUSES
      BY <1>1, <2>4, MoveRows DEF Statuses
    <3> QED BY <2>1, <2>2, <3>1 DEF Open
  <2>5. CASE t = s /\ to \in TERMINAL_STATUSES
    <3>1. task[s].milestone = m /\ m # None
      BY <2>2, <2>5, ConstantsAssumption DEF TasksOf
    <3>2. ~ LastOpenTask(s)
      BY <1>0, <1>1, <2>5, <3>1 DEF Move, PerformTransition, TypeOK
    <3>3. milestone[m].status \in {"active", "pending"}
      BY <1>0, <2>1 DEF TypeOK, MilestoneStatuses
    <3>4. PICK u \in TasksOf(m) \ {s} : Open(u)
      BY <3>1, <3>2, <3>3 DEF LastOpenTask
    <3> QED BY <1>1, <2>1, <3>4, MoveRows DEF Open, TasksOf
  <2> QED BY <2>3, <2>4, <2>5
<1>2. CASE Standstill
  BY <1>0, <1>2 DEF Standstill, SameStanding, UnfinishedHasWork, TasksOf, Open
<1>3. ASSUME NEW s \in Tasks, NEW n \in Milestones \union {None}, NEW b \in Briefs, NEW deps \in SUBSET Tasks,
             CreateTask(s, n, b, deps)
      PROVE  \E t \in TasksOf(m)' : Open(t)'
  <2>1. /\ task'[s].status = "draft" /\ task'[s].milestone = n
        /\ milestone' = milestone
        /\ \A v \in Tasks \ {s} : task'[v] = task[v]
    BY <1>3 DEF CreateTask, Draft, Absent, TypeOK
  <2>2. CASE n = m
    BY <2>1, <2>2 DEF TasksOf, Open, NON_TERMINAL_STATUSES
  <2>3. CASE n # m
    <3>1. \A v \in TasksOf(m)' : v \in TasksOf(m)
      BY <2>1, <2>3 DEF TasksOf
    <3>2. PICK t \in TasksOf(m) : Open(t)
      BY <1>0, <2>1, <3>1 DEF UnfinishedHasWork
    <3>3. t # s
      BY <1>3, <3>2, StatusTypes DEF CreateTask, Exists, Open, Statuses
    <3> QED BY <2>1, <3>2, <3>3 DEF TasksOf, Open
  <2> QED BY <2>2, <2>3
<1>4. ASSUME Removal PROVE FALSE
  BY <1>4 DEF Removal
<1>5. ASSUME NEW n \in Milestones, MilestoneNext(n)
      PROVE  \E t \in TasksOf(m)' : Open(t)'
  <2>1. task' = task /\ milestone[m].status # "completed"
    BY <1>0, <1>5, MilestoneSteps DEF Confined
  <2> QED BY <1>0, <2>1 DEF UnfinishedHasWork, TasksOf, Open
<1> QED BY <1>1, <1>2, <1>3, <1>4, <1>5, StepCases

\* The handler that ends the last open task of a milestone completes it, so
\* a milestone that is not completed and has tasks has work left.
THEOREM MilestonesFollowTheirTasks ==
    Confined /\ "delete" \notin Optional => (Spec => []UnfinishedHasWork)
<1> SUFFICES ASSUME Confined, "delete" \notin Optional
             PROVE  Spec => []UnfinishedHasWork
  OBVIOUS
<1>1. Init => UnfinishedHasWork
  <2> SUFFICES ASSUME Init, NEW m \in Milestones, NEW t \in TasksOf(m)
               PROVE  Open(t)
    BY DEF UnfinishedHasWork
  <2>1. task[t].milestone \in Milestones /\ t \in Tasks
    BY DEF TasksOf
  <2>2. task[t].status = "draft"
    BY <2>1, InitDrafts, InitAbsent, ConstantsAssumption
  <2> QED BY <2>2 DEF Open, NON_TERMINAL_STATUSES
<1>2. TypeOK /\ UnfinishedHasWork /\ [Next]_vars => UnfinishedHasWork'
  BY UnfinishedStep
<1> QED BY <1>1, <1>2, InitType, NextType, PTL DEF Spec

-----------------------------------------------------------------------------
(* Where a status is entered from.                                         *)

LEMMA Predecessors ==
    ASSUME NEW s \in Statuses, NEW to \in VALID_TRANSITIONS[s]
    PROVE  /\ to = "integrating" => s = "pending_completion_review"
           /\ to = "pending_completion_review" => s \in {"doing", "changes_requested"}
           /\ to = "changes_requested" => s \in REVIEW_STATUSES
           /\ to = "done" => s \in {"doing", "pending_completion_review", "integrating"}
BY DEF Statuses, TERMINAL_STATUSES, NON_TERMINAL_STATUSES, VALID_TRANSITIONS, REVIEW_STATUSES

\* What a move takes its task through: an edge of the graph, which no guard
\* refuses.
LEMMA MoveEdge ==
    ASSUME TypeOK, NEW t \in Tasks, NEW row, NEW to, Move(t, row, to)
    PROVE  /\ task[t].status \in Statuses
           /\ to \in VALID_TRANSITIONS[task[t].status]
           /\ to = "done" /\ Workgraph(t) => task[t].status = "integrating"
BY DEF Move, PerformTransition, Accepts, EntryGuards, guard_done_via_integration,
       Context, Exists, TypeOK, Row

\* A transition out of a terminal status is refused.
LEMMA NoMoveFromTerminal ==
    ASSUME NEW t \in Tasks, NEW row, NEW to, PerformTransition(t, row, to)
    PROVE  task[t].status \notin TERMINAL_STATUSES
BY TerminalHasNoSuccessor DEF PerformTransition, Accepts

\* A task of the first state: nothing of its life has happened yet.
LEMMA InitRow ==
    ASSUME Init, NEW t \in Tasks
    PROVE  task[t].return_to = None /\ events[t] = {}
<1>1. PICK home \in [Seeded -> Milestones \union {None}] :
         task = [u \in Tasks |-> IF u \in Seeded THEN Draft(home[u]) ELSE Absent]
  BY DEF Init
<1>2. Absent.return_to = None /\ \A m : Draft(m).return_to = None
  BY DEF Draft, Absent
<1> QED BY <1>1, <1>2 DEF Init

\* The row of a task that is new, and of one that is not there.
LEMMA NewRows ==
    /\ None \notin {"pending_start_review", "pending_completion_review"}
    /\ Absent.status = "absent" /\ Absent.return_to = None /\ Absent.milestone = None
    /\ \A m : /\ Draft(m).status = "draft" /\ Draft(m).return_to = None
              /\ Draft(m).milestone = m
BY ConstantsAssumption DEF Absent, Draft, Statuses, NON_TERMINAL_STATUSES

\* The row, the brief and the events of a task that a new task leaves alone.
LEMMA CreateRows ==
    ASSUME TypeOK, NEW s \in Tasks, NEW m, NEW b, NEW deps, CreateTask(s, m, b, deps)
    PROVE  /\ task'[s] = Draft(m) /\ task[s].status = "absent"
           /\ \A t \in Tasks \ {s} : task'[t] = task[t] /\ brief'[t] = brief[t]
           /\ events' = events /\ milestone' = milestone
BY DEF CreateTask, Exists, TypeOK

-----------------------------------------------------------------------------
(* Merged before done.                                                     *)

\* A completion review is under way, or comes back, only where it was asked
\* for; so a task that is merging has one, and only the report of the merge
\* can end it.
ReviewedAsAsked ==
    \A t \in Tasks :
       \/ task[t].status \in {"pending_completion_review", "integrating"}
       \/ task[t].return_to = "pending_completion_review"
       => brief[t].completion_review

MergeInv == PendingMeansDraft /\ ReviewedAsAsked /\ MergedBeforeDone

LEMMA ReviewedStep ==
    ASSUME TypeOK, ReviewedAsAsked, Confined, "patch" \notin Optional, [Next]_vars
    PROVE  ReviewedAsAsked'
<1>0. SUFFICES ASSUME NEW t \in Tasks,
                      \/ task'[t].status \in {"pending_completion_review", "integrating"}
                      \/ task'[t].return_to = "pending_completion_review"
               PROVE  brief'[t].completion_review
  BY DEF ReviewedAsAsked
<1>1. ASSUME NEW s \in Tasks, NEW row \in Row, NEW to \in Statuses, Move(s, row, to)
      PROVE  brief'[t].completion_review
  <2>1. CASE t = s
    <3>1. to = "integrating" => task[t].status = "pending_completion_review"
      BY <1>1, <2>1, MoveEdge, Predecessors
    <3>2. to = "pending_completion_review" =>
             brief[t].completion_review \/ task[t].return_to = to
      BY <1>1, <2>1 DEF Move
    <3>3. row.return_to \in {task[t].return_to, task[t].status}
      BY <1>1, <2>1 DEF Move
    <3>4. /\ task'[t].status = to /\ task'[t].return_to = row.return_to
          /\ brief' = brief
      BY <1>1, <2>1, MoveRows
    <3> QED BY <1>0, <3>1, <3>2, <3>3, <3>4 DEF ReviewedAsAsked
  <2>2. CASE t # s
    BY <1>0, <1>1, <2>2, MoveRows DEF ReviewedAsAsked
  <2> QED BY <2>1, <2>2
<1>2. CASE Standstill
  BY <1>0, <1>2 DEF Standstill, SameStanding, ReviewedAsAsked
<1>3. ASSUME NEW s \in Tasks, NEW m \in Milestones \union {None}, NEW b \in Briefs,
             NEW deps \in SUBSET Tasks, CreateTask(s, m, b, deps)
      PROVE  brief'[t].completion_review
  <2>1. CASE t = s
    <3>1. task'[t] = Draft(m)
      BY <1>3, <2>1, CreateRows
    <3> QED BY <1>0, <3>1, NewRows
  <2>2. CASE t # s
    BY <1>0, <1>3, <2>2, CreateRows DEF ReviewedAsAsked
  <2> QED BY <2>1, <2>2
<1>4. CASE Removal
  BY <1>0, <1>4, NewRows DEF Removal, ReviewedAsAsked
<1>5. ASSUME NEW m \in Milestones, MilestoneNext(m) PROVE brief'[t].completion_review
  BY <1>0, <1>5, MilestoneSteps DEF Confined, ReviewedAsAsked
<1> QED BY <1>1, <1>2, <1>3, <1>4, <1>5, StepCases

LEMMA MergedStep ==
    ASSUME TypeOK, MergeInv, Confined, "patch" \notin Optional, [Next]_vars
    PROVE  MergedBeforeDone'
<1>0. SUFFICES ASSUME NEW t \in Tasks, task'[t].status = "done", Workgraph(t)'
               PROVE  "integration_succeeded" \in events'[t]
  BY DEF MergedBeforeDone
<1>1. /\ task'[t].milestone # None
      /\ milestone'[task'[t].milestone].branch
  BY <1>0 DEF Workgraph
<1>2. task[t].status = "done" /\ Workgraph(t) => "integration_succeeded" \in events[t]
  BY DEF MergeInv, MergedBeforeDone
<1>3. ASSUME NEW s \in Tasks, NEW row \in Row, NEW to \in Statuses, Move(s, row, to)
      PROVE  "integration_succeeded" \in events'[t]
  <2>1. Workgraph(t)
    <3>1. task[t].milestone = task'[t].milestone /\ task[t].milestone \in Milestones
      BY <1>1, <1>3, MoveRows DEF TypeOK, Row
    <3> QED BY <1>1, <1>3, <3>1, MoveMilestones DEF Workgraph
  <2>2. events[t] \subseteq events'[t]
    BY <1>3 DEF Move
  <2>3. CASE t = s
    <3>1. to = "done"
      BY <1>0, <1>3, <2>3, MoveRows
    <3>2. task[t].status = "integrating"
      BY <1>3, <2>1, <2>3, <3>1, MoveEdge
    <3>3. brief[t].completion_review
      BY <3>2 DEF MergeInv, ReviewedAsAsked
    <3> QED BY <1>3, <2>3, <3>1, <3>2, <3>3 DEF Move
  <2>4. CASE t # s
    BY <1>0, <1>2, <1>3, <2>1, <2>2, <2>4, MoveRows
  <2> QED BY <2>3, <2>4
<1>4. CASE Standstill
  BY <1>0, <1>1, <1>2, <1>4 DEF Standstill, SameStanding, Workgraph
<1>5. ASSUME NEW s \in Tasks, NEW m \in Milestones \union {None}, NEW b \in Briefs,
             NEW deps \in SUBSET Tasks, CreateTask(s, m, b, deps)
      PROVE  "integration_succeeded" \in events'[t]
  BY <1>0, <1>1, <1>2, <1>5, CreateRows, NewRows DEF Workgraph
<1>6. CASE Removal
  <2>1. task'[t] = task[t] /\ events'[t] = events[t]
    BY <1>0, <1>6, NewRows DEF Removal
  <2>2. task'[t].milestone \in Milestones
    BY <1>1, <2>1 DEF TypeOK, Row
  <2>3. milestone'[task'[t].milestone] = milestone[task'[t].milestone]
    BY <1>6, <2>2 DEF Removal
  <2> QED BY <1>0, <1>1, <1>2, <2>1, <2>3 DEF Workgraph
<1>7. ASSUME NEW m \in Milestones, MilestoneNext(m)
      PROVE  "integration_succeeded" \in events'[t]
  <2>1. task' = task /\ events' = events
    BY <1>7, MilestoneSteps DEF Confined
  <2>2. task[t].milestone \in Milestones
    BY <1>1, <2>1 DEF TypeOK, Row
  <2>3. milestone[task[t].milestone].status # "pending"
    BY <1>0, <2>1, <2>2 DEF MergeInv, PendingMeansDraft, TasksOf
  <2>4. milestone[task[t].milestone].branch
    BY <1>1, <1>7, <2>1, <2>2, <2>3, MilestoneSteps DEF Confined
  <2> QED BY <1>0, <1>2, <2>1, <2>2, <2>4, ConstantsAssumption DEF Workgraph
<1> QED BY <1>3, <1>4, <1>5, <1>6, <1>7, StepCases

\* What is done in a milestone that has an integration branch was merged
\* into it, for any number of tasks and whichever reviews their authors asked
\* for, as long as no review flag is edited later and nobody resets a task:
\* the branch is settled before work begins, only the end of a completion
\* review leads to the merge, and only the report of the merge out of it.
THEOREM DoneMeansMerged ==
    Confined /\ "patch" \notin Optional => (Spec => []MergedBeforeDone)
<1> SUFFICES ASSUME Confined, "patch" \notin Optional
             PROVE  Spec => []MergedBeforeDone
  OBVIOUS
<1>1. Init => MergeInv
  <2> SUFFICES ASSUME Init PROVE ReviewedAsAsked /\ MergedBeforeDone
    BY InitPending DEF MergeInv
  <2> QED BY InitDrafts, InitRow, NewRows DEF ReviewedAsAsked, MergedBeforeDone
<1>2. TypeOK /\ MergeInv /\ [Next]_vars => MergeInv'
  BY PendingStep, ReviewedStep, MergedStep DEF MergeInv
<1> QED BY <1>1, <1>2, InitType, NextType, PTL DEF Spec, MergeInv

-----------------------------------------------------------------------------
(* Claimed before done.                                                    *)

\* The statuses only work leads to, and where no review precedes the start.
Begun == {"doing", "pending_completion_review", "integrating",
          "changes_requested", "done"}

\* A task nobody reviews before the start has been claimed once it has begun.
ClaimedOnce(row, kinds) ==
    /\ row.status # "pending_start_review"
    /\ row.return_to # "pending_start_review"
    /\ row.status \in Begun => "claimed" \in kinds

ClaimInv == \A t \in Tasks : ~ brief[t].start_review => ClaimedOnce(task[t], events[t])

\* Work begins with 'doing'.
LEMMA BegunBefore ==
    ASSUME NEW s \in Statuses, NEW to \in VALID_TRANSITIONS[s],
           to \in Begun \ {"doing"}, s # "pending_start_review"
    PROVE  s \in Begun
BY DEF Statuses, TERMINAL_STATUSES, NON_TERMINAL_STATUSES, VALID_TRANSITIONS, Begun

LEMMA ClaimedStep ==
    ASSUME TypeOK, ClaimInv, Confined, "patch" \notin Optional, [Next]_vars
    PROVE  ClaimInv'
<1>0. SUFFICES ASSUME NEW t \in Tasks, ~ brief'[t].start_review
               PROVE  ClaimedOnce(task'[t], events'[t])
  BY DEF ClaimInv
<1>1. ~ brief[t].start_review => ClaimedOnce(task[t], events[t])
  BY DEF ClaimInv
<1>2. ASSUME NEW s \in Tasks, NEW row \in Row, NEW to \in Statuses, Move(s, row, to)
      PROVE  ClaimedOnce(task'[t], events'[t])
  <2>1. ClaimedOnce(task[t], events[t]) /\ events[t] \subseteq events'[t]
    BY <1>0, <1>1, <1>2, MoveRows DEF Move
  <2>2. CASE t = s
    <3>1. task'[t].status = to /\ task'[t].return_to = row.return_to
      BY <1>2, <2>2, MoveRows
    <3>2. ~ brief[t].start_review
      BY <1>0, <1>2, MoveRows
    <3>3. to # "pending_start_review"
      BY <1>2, <2>1, <2>2, <3>2 DEF Move, ClaimedOnce
    <3>4. row.return_to # "pending_start_review"
      BY <1>2, <2>1, <2>2 DEF Move, ClaimedOnce
    <3>5. CASE to = "doing"
      BY <1>2, <2>2, <3>1, <3>3, <3>4, <3>5 DEF Move, ClaimedOnce
    <3>6. CASE to # "doing"
      <4>1. to \in Begun => task[t].status \in Begun
        BY <1>2, <2>1, <2>2, <3>6, MoveEdge, BegunBefore DEF ClaimedOnce
      <4> QED BY <2>1, <3>1, <3>3, <3>4, <4>1 DEF ClaimedOnce
    <3> QED BY <3>5, <3>6
  <2>3. CASE t # s
    <3>1. task'[t] = task[t]
      BY <1>2, <2>3, MoveRows
    <3> QED BY <2>1, <3>1 DEF ClaimedOnce
  <2> QED BY <2>2, <2>3
<1>3. CASE Standstill
  BY <1>0, <1>1, <1>3 DEF Standstill, SameStanding, ClaimedOnce
<1>4. ASSUME NEW s \in Tasks, NEW m \in Milestones \union {None}, NEW b \in Briefs,
             NEW deps \in SUBSET Tasks, CreateTask(s, m, b, deps)
      PROVE  ClaimedOnce(task'[t], events'[t])
  <2>1. CASE t = s
    <3>1. task'[t] = Draft(m)
      BY <1>4, <2>1, CreateRows
    <3> QED BY <3>1, NewRows DEF ClaimedOnce, Begun
  <2>2. CASE t # s
    BY <1>0, <1>1, <1>4, <2>2, CreateRows
  <2> QED BY <2>1, <2>2
<1>5. CASE Removal
  <2>1. CASE task'[t] = Absent
    BY <2>1, NewRows DEF ClaimedOnce, Begun
  <2>2. CASE task'[t] # Absent
    BY <1>0, <1>1, <1>5, <2>2 DEF Removal
  <2> QED BY <2>1, <2>2
<1>6. ASSUME NEW m \in Milestones, MilestoneNext(m) PROVE ClaimedOnce(task'[t], events'[t])
  BY <1>0, <1>1, <1>6, MilestoneSteps DEF Confined
<1> QED BY <1>2, <1>3, <1>4, <1>5, <1>6, StepCases

\* Nothing is done that no agent claimed, for any number of tasks, as long as
\* its author asked for no review before the start, no flag is edited later
\* and nobody resets a task.  After a start review 'complete' is accepted of
\* a rejected draft, which no agent has had, and leads to the other review.
THEOREM DoneMeansClaimed ==
    Confined /\ "patch" \notin Optional => (Spec => []ClaimedBeforeDone)
<1> SUFFICES ASSUME Confined, "patch" \notin Optional
             PROVE  Spec => []ClaimedBeforeDone
  OBVIOUS
<1>1. Init => ClaimInv
  BY InitDrafts, InitRow, NewRows DEF ClaimInv, ClaimedOnce, Begun
<1>2. TypeOK /\ ClaimInv /\ [Next]_vars => ClaimInv'
  BY ClaimedStep
<1>3. ClaimInv => ClaimedBeforeDone
  BY DEF ClaimInv, ClaimedBeforeDone, ClaimedOnce, Begun
<1> QED BY <1>1, <1>2, <1>3, InitType, NextType, PTL DEF Spec

-----------------------------------------------------------------------------
(* Work follows the dependencies.                                          *)

\* Nobody creates, deletes, edits or links a task once the model has started.
Settled ==
    /\ Confined
    /\ Seeded = Tasks
    /\ {"patch", "link", "delete"} \intersect Optional = {}

\* Every task is there, and what a task that has begun depends on is done.
DependencyInv ==
    /\ \A t \in Tasks : Exists(t)
    /\ ClaimInv
    /\ \A t, u \in Tasks :
          <<t, u>> \in links /\ task[t].status \in Begun /\ ~ brief[t].start_review
             => task[u].status = "done"

LEMMA DependencyStep ==
    ASSUME TypeOK, DependencyInv, Settled, [Next]_vars
    PROVE  DependencyInv'
<1>1. Confined /\ {"patch", "link", "delete"} \intersect Optional = {}
  BY DEF Settled
<1>2. ClaimInv'
  BY <1>1, ClaimedStep DEF DependencyInv
<1>3. ASSUME NEW s \in Tasks, NEW row \in Row, NEW to \in Statuses, Move(s, row, to)
      PROVE  DependencyInv'
  <2>1. \A t \in Tasks : Exists(t)'
    BY <1>3, MoveRows, StatusTypes DEF DependencyInv, Exists
  <2>2. ASSUME NEW t \in Tasks, NEW u \in Tasks, <<t, u>> \in links',
               task'[t].status \in Begun, ~ brief'[t].start_review
        PROVE  task'[u].status = "done"
    <3>1. <<t, u>> \in links /\ ~ brief[t].start_review
      BY <1>3, <2>2, MoveRows
    <3>2. task[u].status = "done"
      <4>1. CASE task[t].status \in Begun
        BY <3>1, <4>1 DEF DependencyInv
      <4>2. CASE task[t].status \notin Begun
        <5>1. t = s /\ to \in Begun
          BY <1>3, <2>2, <4>2, MoveRows
        <5>2. task[t].status # "pending_start_review"
          BY <3>1 DEF DependencyInv, ClaimInv, ClaimedOnce
        <5>3. to = "doing"
          BY <1>3, <4>2, <5>1, <5>2, MoveEdge, BegunBefore
        <5>4. Resolved(t)
          BY <1>3, <5>1, <5>3 DEF Move
        <5> QED BY <3>1, <5>4 DEF Resolved, DependencyInv
      <4> QED BY <4>1, <4>2
    <3>3. u # s
      BY <1>3, <3>2, NoMoveFromTerminal DEF Move, TERMINAL_STATUSES
    <3> QED BY <1>3, <3>2, <3>3, MoveRows
  <2> QED BY <1>2, <2>1, <2>2 DEF DependencyInv
<1>4. CASE Standstill
  <2>1. brief' = brief /\ links' = links
    BY <1>1, <1>4 DEF Standstill
  <2> QED BY <1>2, <1>4, <2>1 DEF Standstill, SameStanding, DependencyInv, Exists
<1>5. ASSUME NEW s \in Tasks, NEW m \in Milestones \union {None}, NEW b \in Briefs,
             NEW deps \in SUBSET Tasks, CreateTask(s, m, b, deps)
      PROVE  FALSE
  BY <1>5 DEF CreateTask, DependencyInv
<1>6. ASSUME Removal PROVE FALSE
  BY <1>1, <1>6 DEF Removal
<1>7. ASSUME NEW m \in Milestones, MilestoneNext(m) PROVE DependencyInv'
  <2>1. task' = task /\ brief' = brief /\ links' = links
    BY <1>1, <1>7, MilestoneSteps DEF Confined
  <2> QED BY <1>2, <2>1 DEF DependencyInv, Exists
<1> QED BY <1>1, <1>3, <1>4, <1>5, <1>6, <1>7, StepCases

\* For any tasks and any links between them, cyclic ones included, a task is
\* worked on or done only when all it depends on is done: once the claim has
\* found its dependencies done they stay so, whatever reviews send the task
\* back.
THEOREM WorkFollowsDependencies == Settled => (Spec => []DependencyOrder)
<1> SUFFICES ASSUME Settled PROVE Spec => []DependencyOrder
  OBVIOUS
<1>1. Init => DependencyInv
  <2> SUFFICES ASSUME Init PROVE DependencyInv
    OBVIOUS
  <2>1. \A t \in Tasks : task[t].status = "draft"
    <3>1. PICK home \in [Seeded -> Milestones \union {None}] :
             task = [u \in Tasks |-> IF u \in Seeded THEN Draft(home[u]) ELSE Absent]
      BY DEF Init
    <3> QED BY <3>1, NewRows DEF Settled
  <2>2. ClaimInv
    BY InitDrafts, InitRow, NewRows DEF ClaimInv, ClaimedOnce, Begun
  <2> QED BY <2>1, <2>2 DEF DependencyInv, Exists, Begun
<1>2. TypeOK /\ DependencyInv /\ [Next]_vars => DependencyInv'
  BY DependencyStep
<1>3. DependencyInv => DependencyOrder
  BY DEF DependencyInv, DependencyOrder, Begun
<1> QED BY <1>1, <1>2, <1>3, InitType, NextType, PTL DEF Spec

-----------------------------------------------------------------------------
(* A completed milestone has no open task.                                 *)

LEMMA CompletedStep ==
    ASSUME TypeOK, CompletedHasNoWork, Maintained,
           {"create", "complete_milestone"} \intersect Optional = {}, [Next]_vars
    PROVE  CompletedHasNoWork'
<1>0. SUFFICES ASSUME NEW m \in Milestones, NEW t \in TasksOf(m)',
                      milestone'[m].status = "completed"
               PROVE  ~ Open(t)'
  BY DEF CompletedHasNoWork
<1>1. t \in Tasks /\ task'[t].milestone = m /\ m # None
  BY ConstantsAssumption DEF TasksOf
<1>2. milestone[m].status = "completed" /\ task[t].milestone = m => ~ Open(t)
  BY <1>1 DEF CompletedHasNoWork, TasksOf
<1>3. ASSUME NEW s \in Tasks, NEW row \in Row, NEW to \in Statuses, Move(s, row, to)
      PROVE  ~ Open(t)'
  <2>1. task[t].milestone = m
    BY <1>1, <1>3, MoveRows
  <2>2. CASE t = s
    <3>1. Open(t)
      <4>1. task[t].status \in Statuses \ TERMINAL_STATUSES
        BY <1>3, <2>2, MoveEdge, NoMoveFromTerminal DEF Move
      <4> QED BY <4>1 DEF Open, Statuses
    <3>2. to \in TERMINAL_STATUSES
      BY <1>0, <1>2, <1>3, <2>1, <3>1, MoveMilestones
    <3> QED BY <1>3, <2>2, <3>2, MoveRows
            DEF Open, TERMINAL_STATUSES, NON_TERMINAL_STATUSES
  <2>3. CASE t # s
    <3>1. task'[t] = task[t]
      BY <1>1, <1>3, <2>3, MoveRows
    <3>2. CASE milestone'[m] = milestone[m]
      BY <1>0, <1>2, <2>1, <3>1, <3>2 DEF Open
    <3>3. CASE task[s].milestone = m /\ LastOpenTask(s)
      BY <1>1, <2>1, <2>3, <3>1, <3>3 DEF LastOpenTask, TasksOf, Open
    <3> QED BY <1>3, <3>2, <3>3, MoveMilestones
  <2> QED BY <2>2, <2>3
<1>4. CASE Standstill
  BY <1>0, <1>1, <1>2, <1>4 DEF Standstill, SameStanding, Open
<1>5. ASSUME NEW s \in Tasks, NEW n \in Milestones \union {None}, NEW b \in Briefs,
             NEW deps \in SUBSET Tasks, CreateTask(s, n, b, deps)
      PROVE  FALSE
  BY <1>5 DEF CreateTask
<1>6. CASE Removal
  <2>1. task'[t] = task[t] /\ milestone'[m] = milestone[m]
    BY <1>1, <1>6, NewRows DEF Removal
  <2> QED BY <1>0, <1>1, <1>2, <2>1 DEF Open
<1>7. ASSUME NEW n \in Milestones, MilestoneNext(n) PROVE ~ Open(t)'
  <2>1. task' = task /\ task[t].milestone = m
    BY <1>1, <1>7, MilestoneSteps
  <2>2. milestone[m].status = "completed" \/ \A u \in TasksOf(m) : ~ Open(u)
    BY <1>0, <1>7, MilestoneSteps
  <2> QED BY <1>1, <1>2, <2>1, <2>2 DEF Open, TasksOf
<1>8. ASSUME NEW s \in Tasks, NEW to \in Statuses, Reset(s, to) PROVE ~ Open(t)'
  <2>1. task'[t].milestone = task[t].milestone /\ (t # s => task'[t] = task[t])
    BY <1>1, <1>8, UnclaimedType DEF Reset, TypeOK, Row
  <2>2. t = s => task'[t].status = to
    BY <1>1, <1>8, UnclaimedType DEF Reset, TypeOK, Row
  <2>3. milestone[m].status = "completed"
    BY <1>0, <1>8 DEF Reset, TypeOK
  <2>4. t = s => to \notin NON_TERMINAL_STATUSES
    BY <1>0, <1>1, <1>8, <2>1 DEF Reset, TypeOK
  <2> QED BY <1>1, <1>2, <2>1, <2>2, <2>3, <2>4 DEF Open
<1> QED BY <1>3, <1>4, <1>5, <1>6, <1>7, <1>8, StepCasesWithReset

\* No open task hides in a completed milestone, an administrator's resets
\* included: the handler that reopens a task also reopens its milestone.  A
\* task created in a completed milestone, or one that is completed by hand,
\* is the exception, and both are options the theorem leaves out.
THEOREM NothingHidesInCompleted ==
    Maintained /\ {"create", "complete_milestone"} \intersect Optional = {}
       => (Spec => []CompletedHasNoWork)
<1> SUFFICES ASSUME Maintained, {"create", "complete_milestone"} \intersect Optional = {}
             PROVE  Spec => []CompletedHasNoWork
  OBVIOUS
<1>1. Init => CompletedHasNoWork
  BY DEF Init, CompletedHasNoWork, NewMilestone
<1>2. TypeOK /\ CompletedHasNoWork /\ [Next]_vars => CompletedHasNoWork'
  BY CompletedStep
<1> QED BY <1>1, <1>2, InitType, NextType, PTL DEF Spec

-----------------------------------------------------------------------------
(* A terminal status.                                                      *)

LEMMA TerminalStep ==
    ASSUME TypeOK, Next, NEW t \in Tasks,
           task[t].status \in TERMINAL_STATUSES, task'[t].status # task[t].status
    PROVE  ResetOrDeleted(t)
<1>1. ASSUME NEW s \in Tasks, NEW row \in Row, NEW to \in Statuses, Move(s, row, to)
      PROVE  FALSE
  <2>1. s # t
    BY <1>1, NoMoveFromTerminal DEF Move
  <2> QED BY <1>1, <2>1, MoveRows
<1>2. ASSUME Standstill PROVE FALSE
  BY <1>2 DEF Standstill, SameStanding
<1>3. ASSUME NEW s \in Tasks, AdminNext(s)
      PROVE  ResetOrDeleted(t)
  <2>1. ASSUME NEW to \in Statuses, Reset(s, to)
        PROVE  \E goal \in Statuses : Reset(t, goal)
    BY <2>1 DEF Reset, TypeOK
  <2>2. ASSUME NEW m \in Milestones \union {None}, NEW b \in Briefs, NEW deps \in SUBSET Tasks,
               CreateTask(s, m, b, deps) \/ EditTask(s, m, b, deps)
        PROVE  FALSE
    <3>1. CASE CreateTask(s, m, b, deps)
      <4>1. s # t
        BY <3>1 DEF CreateTask, Exists, TERMINAL_STATUSES
      <4> QED BY <3>1, <4>1 DEF CreateTask, TypeOK
    <3>2. CASE EditTask(s, m, b, deps)
      BY <3>2 DEF EditTask, TypeOK, Row
    <3> QED BY <2>2, <3>1, <3>2
  <2>3. ASSUME DeleteTask(s) PROVE DeleteTask(t)
    BY <2>3 DEF DeleteTask, TypeOK
  <2>4. ASSUME NEW u \in Tasks, CreateLink(s, u) \/ DeleteLink(s, u) PROVE FALSE
    BY <2>4 DEF CreateLink, DeleteLink
  <2>5. ASSUME NEW back \in ReturnTargets \union {None}, NEW lease \in Leases,
               EditColumns(s, back, lease)
        PROVE  FALSE
    BY <2>5 DEF EditColumns, TypeOK, Row
  <2> QED BY <1>3, <2>1, <2>2, <2>3, <2>4, <2>5 DEF AdminNext, ResetOrDeleted
<1>4. ASSUME NEW m \in Milestones, MilestoneNext(m) PROVE FALSE
  BY <1>4 DEF MilestoneNext, ActivateMilestone, McpActivateMilestone,
              CompleteMilestone, EditMilestone
<1>5. ASSUME NEW s \in Tasks, Resubmit(s) PROVE FALSE
  <2>1. s # t
    BY <1>5, NoMoveFromTerminal DEF Resubmit
  <2> QED BY <1>5, <2>1 DEF Resubmit, PerformTransition, TypeOK
<1> QED BY <1>1, <1>2, <1>3, <1>4, <1>5, AgentSteps, PeopleSteps, SystemSteps
        DEF Next, ResetOrDeleted

\* One handler at a time, done and cancelled are final but for the
\* administrator: no option of the model has to be left out.
THEOREM TerminalStays == Spec => TerminalIsFinal
<1>1. TypeOK /\ [Next]_vars =>
         [\A t \in Tasks :
            task[t].status \in TERMINAL_STATUSES /\ task'[t].status # task[t].status
               => ResetOrDeleted(t)]_vars
  BY TerminalStep
<1> QED BY <1>1, TypeCorrect, PTL DEF Spec, TerminalIsFinal

\* One handler reopens the task and the milestone: for any options.
LEMMA ReopenStep ==
    ASSUME TypeOK, Next, NEW t \in Tasks,
           task[t].status \in TERMINAL_STATUSES,
           task'[t].status \in NON_TERMINAL_STATUSES,
           task'[t].milestone # None
    PROVE  milestone'[task'[t].milestone].status # "completed"
<1>1. /\ task'[t].status # task[t].status
      /\ task'[t].status # "absent" /\ task'[t] # task[t]
  BY DEF TERMINAL_STATUSES, NON_TERMINAL_STATUSES
<1>2. ResetOrDeleted(t)
  BY <1>1, TerminalStep
<1>3. ASSUME NEW to \in Statuses, Reset(t, to)
      PROVE  milestone'[task'[t].milestone].status # "completed"
  <2>1. /\ task'[t].status = to
        /\ task'[t].milestone = task[t].milestone
        /\ task[t].milestone \in Milestones
    BY <1>3, UnclaimedType DEF Reset, TypeOK, Row
  <2> QED BY <1>3, <2>1 DEF Reset, TypeOK
<1>4. ASSUME DeleteTask(t) PROVE FALSE
  BY <1>1, <1>4, NewRows DEF DeleteTask, TypeOK
<1>5. ASSUME NEW m \in Milestones, DeleteMilestone(m) PROVE FALSE
  BY <1>1, <1>5, NewRows DEF DeleteMilestone
<1> QED BY <1>2, <1>3, <1>4, <1>5 DEF ResetOrDeleted

\* A task an administrator reopens is not hidden by its milestone, whatever
\* options the instance has.
THEOREM ReopenedShows == Spec => ReopenedIsVisible
<1>1. TypeOK /\ [Next]_vars =>
         [\A t \in Tasks :
            /\ task[t].status \in TERMINAL_STATUSES
            /\ task'[t].status \in NON_TERMINAL_STATUSES
            /\ task'[t].milestone # None
            => milestone'[task'[t].milestone].status # "completed"]_vars
  BY ReopenStep
<1> QED BY <1>1, TypeCorrect, PTL DEF Spec, ReopenedIsVisible

-----------------------------------------------------------------------------
(* What is offered can be had.                                             *)

LEMMA OfferHolds ==
    ASSUME NEW a \in Agents, NEW t \in Claimable(a)
    PROVE  MayClaim(t, a) /\ Accepts(task[t].status, "doing", Context(t))
<1> DEFINE ready == {u \in Tasks : /\ task[u].status = "todo"
                                   /\ Context(u).milestone \in {"none", "active"}}
<1>1. /\ t \in Tasks /\ t \in ready \ Unresolved(ready)
      /\ task[t].status = "todo"
      /\ brief[t].assigned_to \in {None, a} /\ <<a, t>> \in TagMatch
  BY DEF Claimable
<1> HIDE DEF ready
<1>2. Dependencies(t) = {} \/ Resolved(t)
  BY <1>1 DEF Unresolved
<1>3. Resolved(t)
  BY <1>1, <1>2 DEF Dependencies, Resolved
<1>4. "doing" \in VALID_TRANSITIONS["todo"]
  BY DEF VALID_TRANSITIONS
<1> QED BY <1>1, <1>3, <1>4 DEF MayClaim, Accepts, ExitGuards, EntryGuards

\* The listing and the claim agree on every task, whatever the links, the
\* tags and the assignees: the listing takes the two sets of dependencies it
\* compares from queries of its own.
THEOREM OffersCanBeClaimed == Spec => []OfferIsClaimable
<1>1. OfferIsClaimable
  BY OfferHolds DEF OfferIsClaimable
<1> QED BY <1>1, PTL
=============================================================================
