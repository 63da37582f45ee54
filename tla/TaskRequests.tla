--------------------------- MODULE TaskRequests ---------------------------
(***************************************************************************)
(* The same handlers as TaskLifecycle, cut into the statements each of     *)
(* them commits.  ATOMIC_REQUESTS is off: a handler reads its task, decides *)
(* on that copy and then saves columns one statement at a time, while      *)
(* other requests and the reapers do the same.  Only claim_task and        *)
(* take_merge_slot open a transaction and lock a row.                      *)
(*                                                                         *)
(* The tasks are admitted tasks of milestones that are already active; the *)
(* dependencies, tags and assignees that a claim looks at are left to      *)
(* TaskLifecycle.                                                          *)
(***************************************************************************)
EXTENDS TaskStateMachine

CONSTANTS
    Tasks, Agents, Milestones, None,
    Requests,      \* web requests and reaper runs that may be under way at once
    MilestoneOf,   \* the milestone of each task
    Workgraph,     \* the milestones that own an integration branch
    StartReview,   \* the tasks reviewed before they start
    Reviewed,      \* the tasks reviewed on completion
    Ops,           \* the handlers the instance runs
    Crashes        \* whether a process may die between two statements

ReaperOps == {"expire_claims", "expire_reviews", "expire_integrations"}

WebOps ==
    {"submit", "unclaim", "complete", "fail", "integrated", "not_integrated",
     "recover", "resubmit", "block", "unblock", "defer", "cancel", "approve",
     "request_changes", "heartbeat", "reset", "patch"}

ASSUME RequestsAssumption ==
    /\ None \notin Agents \union Milestones \union Requests
    /\ MilestoneOf \in [Tasks -> Milestones]
    /\ Workgraph \subseteq Milestones
    /\ StartReview \subseteq Tasks
    /\ Reviewed \subseteq Tasks
    /\ Ops \subseteq WebOps \union ReaperOps
    /\ Crashes \in BOOLEAN

VARIABLES
    task,     \* the committed tasks_task row of each task
    mstatus,  \* the committed status of each milestone
    lock,     \* who holds the row lock of each milestone
    req       \* what each request has read and where it stands

vars == <<task, mstatus, lock, req>>

Row ==
    [status : Statuses, claimed_by : Agents \union {None}, claim_lease : Leases,
     review_lease : BOOLEAN, integration_lease : BOOLEAN,
     return_to : REVIEW_STATUSES \union {None}]

\* The statement a request executes next.
Points ==
    {"idle", "clear_lease", "save_return", "lock_milestone", "check_slot",
     "enter_slot", "transition", "clear_claim", "check_milestone",
     "complete_milestone", "renew", "force", "reactivate", "write_back"}

(***************************************************************************)
(* A request on `task` that will set the status to `to`; `copy` is the row *)
(* as the handler read it and `mcopy` the status of the milestone that     *)
(* came with it (views use select_related).                                *)
(***************************************************************************)
Idle == [pc |-> "idle"]

Active ==
    [pc : Points \ {"idle"}, op : WebOps \union ReaperOps, task : Tasks,
     to : Statuses, copy : Row \union {None}, mcopy : MilestoneStatuses]

\* The one type invariant of the module.
TypeOK ==
    /\ task \in [Tasks -> Row]
    /\ mstatus \in [Milestones -> MilestoneStatuses]
    /\ lock \in [Milestones -> Requests \union {None}]
    /\ req \in [Requests -> Active \union {Idle}]

Admitted ==
    [status |-> "todo", claimed_by |-> None, claim_lease |-> "none",
     review_lease |-> FALSE, integration_lease |-> FALSE, return_to |-> None]

Init ==
    /\ task = [t \in Tasks |-> Admitted]
    /\ mstatus = [m \in Milestones |-> "active"]
    /\ lock = [m \in Milestones |-> None]
    /\ req = [r \in Requests |-> Idle]

Siblings(t) == {u \in Tasks \ {t} : MilestoneOf[u] = MilestoneOf[t]}

Context(t) ==
    [milestone |-> mstatus[MilestoneOf[t]],
     workgraph |-> MilestoneOf[t] \in Workgraph,
     workplan |-> TRUE, admissible |-> TRUE]

-----------------------------------------------------------------------------
(* Reading the task and deciding, on the copy, what to do.                 *)

\* The status a handler asks for before it does anything; the others leave
\* that to the status graph.
Required(op) ==
    CASE op \in {"unclaim", "heartbeat", "expire_claims"} -> {"doing"}
      [] op \in {"integrated", "not_integrated", "expire_integrations"} ->
            {"integrating"}
      [] op = "recover" -> {"needs_attention"}
      [] op \in {"approve", "request_changes"} -> REVIEW_STATUSES
      [] op = "expire_reviews" -> {"pending_completion_review"}
      [] OTHER -> Statuses

\* What the queries of the reapers ask for besides the status.
Due(op, row) ==
    /\ op = "expire_claims" => row.claim_lease = "expired"
    /\ op = "expire_reviews" => row.review_lease
    /\ op = "expire_integrations" => row.integration_lease

\* The statuses a handler may be asked to reach from the row it read.
Targets(op, t, row) ==
    CASE op = "submit" ->
            {IF t \in StartReview THEN "pending_start_review" ELSE "todo"}
      [] op \in {"unclaim", "unblock"} -> {"todo"}
      [] op = "complete" ->
            {IF t \in Reviewed THEN "pending_completion_review" ELSE "done"}
      [] op \in {"fail", "not_integrated"} \union ReaperOps -> {"needs_attention"}
      [] op = "integrated" -> {"done"}
      [] op = "recover" -> {"todo", "draft"}
      [] op = "resubmit" -> {row.return_to} \ {None}
      [] op = "block" -> {"blocked"}
      [] op = "defer" -> {"deferred"}
      [] op = "cancel" -> {"cancelled"}
      [] op = "approve" ->
            {IF row.status = "pending_start_review" THEN "todo"
             ELSE IF MilestoneOf[t] \in Workgraph THEN "integrating" ELSE "done"}
      [] op = "request_changes" -> {"changes_requested"}
      [] op = "reset" -> Statuses
      [] OTHER -> {row.status}

\* The handlers that do not go through perform_transition.
Direct(op) == op \in {"heartbeat", "reset", "patch"}

FirstPoint(op, to) ==
    CASE op \in ReaperOps -> "clear_lease"
      [] op = "request_changes" -> "save_return"
      [] op = "heartbeat" -> "renew"
      [] op = "reset" -> "force"
      [] op = "patch" -> "write_back"
      [] op = "approve" /\ to = "integrating" -> "lock_milestone"
      [] OTHER -> "transition"

\* Variant: the handler takes the graph's consent for granted.
BeginUnchecked(r, op, t, to) ==
    /\ req[r].pc = "idle"
    /\ task[t].status \in Required(op)
    /\ Due(op, task[t])
    /\ to \in Targets(op, t, task[t])
    /\ req' = [req EXCEPT ![r] =
                 [pc |-> FirstPoint(op, to), op |-> op, task |-> t, to |-> to,
                  copy |-> task[t], mcopy |-> mstatus[MilestoneOf[t]]]]
    /\ UNCHANGED <<task, mstatus, lock>>

\* A request that is refused here changes nothing and is not modelled.
Begin(r, op, t, to) ==
    /\ req[r].pc = "idle"
    /\ task[t].status \in Required(op)
    /\ Due(op, task[t])
    /\ to \in Targets(op, t, task[t])
    /\ Direct(op) \/ Accepts(task[t].status, to, Context(t))
    /\ req' = [req EXCEPT ![r] =
                 [pc |-> FirstPoint(op, to), op |-> op, task |-> t, to |-> to,
                  copy |-> IF op \in {"patch", "request_changes"}
                             THEN task[t] ELSE None,
                  mcopy |-> mstatus[MilestoneOf[t]]]]
    /\ UNCHANGED <<task, mstatus, lock>>

\* Variant: a claim past its deadline may be taken over.
ClaimOverdue(t, a) ==
    /\ \/ task[t].status \in {"todo", "changes_requested"}
       \/ task[t].status = "doing" /\ task[t].claim_lease = "expired"
    /\ task' = [task EXCEPT ![t] =
                  [Entered(@, "doing") EXCEPT !.claimed_by = a,
                                              !.claim_lease = "live"]]
    /\ UNCHANGED <<mstatus, lock, req>>

\* claim_task locks the row, so what it reads is still there when it commits.
Claim(t, a) ==
    /\ task[t].status \in {"todo", "changes_requested"}
    /\ task' = [task EXCEPT ![t] =
                  [Entered(@, "doing") EXCEPT !.claimed_by = a,
                                              !.claim_lease = "live"]]
    /\ UNCHANGED <<mstatus, lock, req>>

-----------------------------------------------------------------------------
(* The statements.  `At` is the point a request stands at; `Goto` moves it *)
(* on and `Finish` ends it.                                                *)

At(r, pc) == req[r].pc = pc
Goto(r, pc) == req' = [req EXCEPT ![r].pc = pc]
Finish(r) == req' = [req EXCEPT ![r] = Idle]

SetRow(t, row) == task' = [task EXCEPT ![t] = row]
Unclaimed(row) == [row EXCEPT !.claimed_by = None, !.claim_lease = "none"]

\* A reaper clears the deadline it found past, before anything else.
ClearLease(r) ==
    LET t == req[r].task
    IN  /\ At(r, "clear_lease")
        /\ SetRow(t, CASE req[r].op = "expire_claims" -> Unclaimed(task[t])
                       [] req[r].op = "expire_reviews" ->
                             [task[t] EXCEPT !.review_lease = FALSE]
                       [] OTHER -> [task[t] EXCEPT !.integration_lease = FALSE])
        /\ Goto(r, "transition")
        /\ UNCHANGED <<mstatus, lock>>

\* Variant: review_return_to is the status the task is about to have.
SaveReturnToTarget(r) ==
    LET t == req[r].task
    IN  /\ At(r, "save_return")
        /\ SetRow(t, [task[t] EXCEPT !.return_to = req[r].to])
        /\ Goto(r, "transition")
        /\ UNCHANGED <<mstatus, lock>>

\* review_return_to is the status the review handler read.
SaveReturnTo(r) ==
    LET t == req[r].task
    IN  /\ At(r, "save_return")
        /\ SetRow(t, [task[t] EXCEPT !.return_to = req[r].copy.status])
        /\ Goto(r, "transition")
        /\ UNCHANGED <<mstatus, lock>>

\* Variant: only a task that is done may complete its milestone.
AfterTransitionToDone(op, to) ==
    CASE op \in {"unclaim", "fail", "recover"} -> "clear_claim"
      [] to = "done" -> "check_milestone"
      [] OTHER -> "idle"

\* Where a handler goes on once perform_transition has saved the status.
AfterTransition(op, to) ==
    CASE op \in {"unclaim", "fail", "recover"} -> "clear_claim"
      [] to \in TERMINAL_STATUSES -> "check_milestone"
      [] OTHER -> "idle"

\* perform_transition saves the status decided on the copy: the row may have
\* moved on since it was read.
Transition(r) ==
    LET t == req[r].task
        next == AfterTransition(req[r].op, req[r].to)
    IN  /\ At(r, "transition")
        /\ SetRow(t, Entered(task[t], req[r].to))
        /\ IF next = "idle" THEN Finish(r) ELSE Goto(r, next)
        /\ UNCHANGED <<mstatus, lock>>

\* The second save of unclaim, fail and recover.
ClearClaim(r) ==
    LET t == req[r].task
    IN  /\ At(r, "clear_claim")
        /\ SetRow(t, Unclaimed(task[t]))
        /\ Finish(r)
        /\ UNCHANGED <<mstatus, lock>>

\* maybe_complete_milestone: the milestone's status as it came with the task,
\* the statuses of its tasks as they are committed now.
CheckMilestone(r) ==
    LET m == MilestoneOf[req[r].task]
    IN  /\ At(r, "check_milestone")
        /\ IF /\ req[r].mcopy \in {"active", "pending"}
              /\ \A u \in Tasks : MilestoneOf[u] = m =>
                    task[u].status \in TERMINAL_STATUSES
             THEN Goto(r, "complete_milestone")
             ELSE Finish(r)
        /\ UNCHANGED <<task, mstatus, lock>>

CompleteMilestone(r) ==
    /\ At(r, "complete_milestone")
    /\ mstatus' = [mstatus EXCEPT ![MilestoneOf[req[r].task]] = "completed"]
    /\ Finish(r)
    /\ UNCHANGED <<task, lock>>

Renew(r) ==
    LET t == req[r].task
    IN  /\ At(r, "renew")
        /\ SetRow(t, [task[t] EXCEPT !.claim_lease = "live"])
        /\ Finish(r)
        /\ UNCHANGED <<mstatus, lock>>

\* PATCH saves every column, the ones it did not change as it read them.
WriteBack(r) ==
    /\ At(r, "write_back")
    /\ SetRow(req[r].task, req[r].copy)
    /\ Finish(r)
    /\ UNCHANGED <<mstatus, lock>>

ForceStatus(r) ==
    LET t == req[r].task
        row == IF req[r].to = "doing" THEN task[t] ELSE Unclaimed(task[t])
    IN  /\ At(r, "force")
        /\ SetRow(t, [row EXCEPT !.status = req[r].to])
        /\ Goto(r, "reactivate")
        /\ UNCHANGED <<mstatus, lock>>

Reactivate(r) ==
    /\ At(r, "reactivate")
    /\ mstatus' = [mstatus EXCEPT ![MilestoneOf[req[r].task]] =
          IF req[r].mcopy = "completed" /\ req[r].to \notin TERMINAL_STATUSES
            THEN "active" ELSE @]
    /\ Finish(r)
    /\ UNCHANGED <<task, lock>>

-----------------------------------------------------------------------------
(* take_merge_slot: one transaction under the row lock of the milestone.   *)

\* Variant: the milestone is read without FOR UPDATE.
ReadMilestone(r) ==
    /\ At(r, "lock_milestone")
    /\ Goto(r, "check_slot")
    /\ UNCHANGED <<task, mstatus, lock>>

LockMilestone(r) ==
    LET m == MilestoneOf[req[r].task]
    IN  /\ At(r, "lock_milestone")
        /\ lock[m] = None
        /\ lock' = [lock EXCEPT ![m] = r]
        /\ Goto(r, "check_slot")
        /\ UNCHANGED <<task, mstatus>>

Unlock(r) == lock' = [m \in Milestones |-> IF lock[m] = r THEN None ELSE lock[m]]

\* Variant: a task past its deadline is not counted.
SlotOccupiedInTime(t) ==
    \E u \in Siblings(t) :
       task[u].status = "integrating" /\ task[u].integration_lease

SlotOccupied(t) == \E u \in Siblings(t) : task[u].status = "integrating"

\* Occupied: MergeSlotError, and the transaction is rolled back.
CheckSlot(r) ==
    /\ At(r, "check_slot")
    /\ IF SlotOccupied(req[r].task)
         THEN Unlock(r) /\ Finish(r)
         ELSE Goto(r, "enter_slot") /\ UNCHANGED lock
    /\ UNCHANGED <<task, mstatus>>

\* Variant: the status alone is saved.
EnterSlotUnwatched(r) ==
    LET t == req[r].task
    IN  /\ At(r, "enter_slot")
        /\ SetRow(t, [task[t] EXCEPT !.status = "integrating"])
        /\ Unlock(r)
        /\ Finish(r)
        /\ UNCHANGED mstatus

\* The status is visible to others when the transaction commits.
EnterSlot(r) ==
    LET t == req[r].task
    IN  /\ At(r, "enter_slot")
        /\ SetRow(t, Entered(task[t], "integrating"))
        /\ Unlock(r)
        /\ Finish(r)
        /\ UNCHANGED mstatus

-----------------------------------------------------------------------------
\* The worker dies: what it committed stays, its lock goes.
Crash(r) ==
    /\ Crashes
    /\ ~ At(r, "idle")
    /\ Unlock(r)
    /\ Finish(r)
    /\ UNCHANGED <<task, mstatus>>

\* The deadline of a claim goes by.
LeaseRunsOut(t) ==
    /\ task[t].status = "doing" /\ task[t].claim_lease = "live"
    /\ SetRow(t, [task[t] EXCEPT !.claim_lease = "expired"])
    /\ UNCHANGED <<mstatus, lock, req>>

Step(r) ==
    \/ ClearLease(r) \/ SaveReturnTo(r) \/ Transition(r) \/ ClearClaim(r)
    \/ CheckMilestone(r) \/ CompleteMilestone(r) \/ Renew(r) \/ WriteBack(r)
    \/ ForceStatus(r) \/ Reactivate(r)
    \/ LockMilestone(r) \/ CheckSlot(r) \/ EnterSlot(r)

Next ==
    \/ \E r \in Requests, op \in Ops, t \in Tasks, to \in Statuses :
          Begin(r, op, t, to)
    \/ \E r \in Requests : Step(r) \/ Crash(r)
    \/ \E t \in Tasks, a \in Agents : Claim(t, a)
    \/ \E t \in Tasks : LeaseRunsOut(t)

Spec == Init /\ [][Next]_vars

-----------------------------------------------------------------------------
(* Properties.                                                             *)

\* The row lock of the milestone serialises its merges, whatever the other
\* requests do in between: at most one of its tasks is 'integrating'.
OneIntegrating ==
    \A t, u \in Tasks :
       /\ MilestoneOf[t] = MilestoneOf[u]
       /\ task[t].status = "integrating"
       /\ task[u].status = "integrating"
       => t = u

\* A task that waits for a verdict or for a merge without a deadline has a
\* reaper on its way that already took the deadline away.
WatchedWhileWaiting ==
    \A t \in Tasks :
       \/ task[t].status = "pending_completion_review" /\ ~ task[t].review_lease
       \/ task[t].status = "integrating" /\ ~ task[t].integration_lease
       => \E r \in Requests :
             /\ At(r, "transition")
             /\ req[r].op \in ReaperOps /\ req[r].task = t

Quiet == \A r \in Requests : At(r, "idle")

\* When the requests that end the last tasks of a milestone overlap, one of
\* them still completes it.
LastOneCompletes ==
    \A m \in Milestones :
       /\ Quiet
       /\ \E t \in Tasks : MilestoneOf[t] = m
       /\ \A t \in Tasks : MilestoneOf[t] = m => task[t].status \in TERMINAL_STATUSES
       => mstatus[m] = "completed"

\* Two agents that both ask for a task do not both get it: a claim is given
\* up before another agent has the task.
ClaimNotStolen ==
    [][\A t \in Tasks :
          /\ task[t].status = "doing"
          /\ task'[t].status = "doing"
          /\ task'[t].claimed_by # None
          => task'[t].claimed_by = task[t].claimed_by]_vars

\* A done or cancelled task stays what it is.
TerminalIsFinal ==
    [][\A t \in Tasks : task[t].status \in TERMINAL_STATUSES
          => task'[t].status = task[t].status]_vars

\* At rest, a task that is being worked on has a deadline.
ClaimsExpire ==
    \A t \in Tasks :
       Quiet /\ task[t].status = "doing" => task[t].claim_lease # "none"

\* The tasks of each milestone that hold its merge slot.
Merging ==
    [m \in Milestones |->
       {t \in Tasks : MilestoneOf[t] = m /\ task[t].status = "integrating"}]

Slot == INSTANCE MergeSlot WITH slot <- Merging

\* take_merge_slot and the handlers that leave 'integrating', statement by
\* statement, implement the merge slot: it passes from a task to another only
\* by way of being free.
SlotSpec == Slot!Spec
=============================================================================
