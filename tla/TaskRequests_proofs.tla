------------------------ MODULE TaskRequests_proofs ------------------------
(***************************************************************************)
(* Proofs about TaskRequests, for any number of requests, tasks and        *)
(* milestones, and with crashes.                                           *)
(***************************************************************************)
EXTENDS TaskRequests, TLAPS

LEMMA StatusTypes ==
    /\ REVIEW_STATUSES \subseteq Statuses
    /\ TERMINAL_STATUSES \subseteq Statuses
    /\ {"draft", "todo", "doing", "done", "integrating", "needs_attention",
        "changes_requested", "blocked", "deferred", "cancelled"} \subseteq Statuses
BY DEF REVIEW_STATUSES, TERMINAL_STATUSES, NON_TERMINAL_STATUSES, Statuses

LEMMA EnteredType ==
    ASSUME NEW row \in Row, NEW to \in Statuses
    PROVE  Entered(row, to) \in Row /\ Entered(row, to).status = to
BY DEF Row, Entered, Statuses

LEMMA UnclaimedType ==
    ASSUME NEW row \in Row
    PROVE  Unclaimed(row) \in Row /\ Unclaimed(row).status = row.status
BY DEF Row, Unclaimed, Leases

LEMMA TargetsType ==
    ASSUME NEW op \in WebOps \union ReaperOps, NEW t \in Tasks, NEW row \in Row
    PROVE  Targets(op, t, row) \subseteq Statuses
BY StatusTypes DEF Targets, Row, REVIEW_STATUSES, ReaperOps, WebOps

LEMMA FirstPointType ==
    ASSUME NEW op \in WebOps \union ReaperOps, NEW to \in Statuses
    PROVE  FirstPoint(op, to) \in
              {"clear_lease", "save_return", "lock_milestone", "transition",
               "renew", "force", "write_back"}
BY DEF FirstPoint, ReaperOps, WebOps

(***************************************************************************)
(* A saved copy is a row, and the review handler's copy was under review.  *)
(***************************************************************************)
Copied ==
    \A r \in Requests :
       /\ At(r, "write_back") => req[r].copy \in Row
       /\ At(r, "save_return") =>
             req[r].copy \in Row /\ req[r].copy.status \in REVIEW_STATUSES

LEMMA InitType == Init => TypeOK /\ Copied
<1> SUFFICES ASSUME Init PROVE TypeOK /\ Copied
  OBVIOUS
<1>1. Admitted \in Row
  BY StatusTypes DEF Admitted, Row, Leases
<1>2. "active" \in MilestoneStatuses
  BY DEF MilestoneStatuses
<1>3. TypeOK
  BY <1>1, <1>2 DEF Init, TypeOK
<1>4. Copied
  BY DEF Init, Copied, Idle, At
<1> QED BY <1>3, <1>4

\* A request that is under way is a record with all the fields, and stays one.
LEMMA ActiveType ==
    ASSUME TypeOK, NEW r \in Requests, ~ At(r, "idle")
    PROVE  /\ req[r] \in Active
           /\ \A pc \in Points \ {"idle"} : [req[r] EXCEPT !.pc = pc] \in Active
BY DEF TypeOK, Active, Idle, At

LEMMA GotoType ==
    ASSUME TypeOK, NEW r \in Requests, ~ At(r, "idle"),
           NEW pc \in Points \ {"idle"}, Goto(r, pc)
    PROVE  /\ req' \in [Requests -> Active \union {Idle}]
           /\ req'[r] = [req[r] EXCEPT !.pc = pc] /\ req'[r].pc = pc
           /\ req'[r].task = req[r].task /\ req'[r].to = req[r].to
           /\ \A s \in Requests \ {r} : req'[s] = req[s]
<1> DEFINE next == [req[r] EXCEPT !.pc = pc]
<1>1. next \in Active /\ req[r] \in Active
  BY ActiveType
<1>2. next.pc = pc /\ next.task = req[r].task /\ next.to = req[r].to
  BY <1>1 DEF Active
<1>3. req'[r] = next
  BY DEF TypeOK, Goto
<1>4. \A s \in Requests \ {r} : req'[s] = req[s]
  BY DEF TypeOK, Goto
<1>5. req' \in [Requests -> Active \union {Idle}]
  BY <1>1 DEF TypeOK, Goto
<1> HIDE DEF next
<1>6. req'[r].pc = pc /\ req'[r].task = req[r].task /\ req'[r].to = req[r].to
  BY <1>2, <1>3
<1> QED BY <1>3, <1>4, <1>5, <1>6 DEF next

LEMMA FinishType ==
    ASSUME TypeOK, NEW r \in Requests, Finish(r)
    PROVE  /\ req' \in [Requests -> Active \union {Idle}]
           /\ req'[r].pc = "idle"
           /\ \A s \in Requests \ {r} : req'[s] = req[s]
BY DEF TypeOK, Finish, Idle

LEMMA SetRowType ==
    ASSUME TypeOK, NEW t \in Tasks, NEW row \in Row, SetRow(t, row)
    PROVE  task' \in [Tasks -> Row]
BY DEF TypeOK, SetRow

-----------------------------------------------------------------------------
(* Type correctness.                                                       *)

LEMMA BeginType ==
    ASSUME TypeOK, Copied, NEW r \in Requests, NEW op \in WebOps \union ReaperOps,
           NEW t \in Tasks, NEW to \in Statuses, Begin(r, op, t, to)
    PROVE  TypeOK' /\ Copied'
<1> DEFINE copy == IF op \in {"patch", "request_changes"} THEN task[t] ELSE None
           new == [pc |-> FirstPoint(op, to), op |-> op, task |-> t, to |-> to,
                   copy |-> copy, mcopy |-> mstatus[MilestoneOf[t]]]
<1>1. task[t] \in Row /\ copy \in Row \union {None}
  BY DEF TypeOK
<1>2. mstatus[MilestoneOf[t]] \in MilestoneStatuses
  BY RequestsAssumption DEF TypeOK
<1>3. FirstPoint(op, to) \in Points \ {"idle"}
  BY FirstPointType DEF Points
<1>4. new \in Active
  BY <1>1, <1>2, <1>3 DEF Active
<1>5. req' = [req EXCEPT ![r] = new]
  BY DEF Begin
<1>6. TypeOK'
  BY <1>4, <1>5 DEF Begin, TypeOK
<1>7. FirstPoint(op, to) = "write_back" => op = "patch"
  BY DEF FirstPoint, ReaperOps
<1>8. FirstPoint(op, to) = "save_return" => op = "request_changes"
  BY DEF FirstPoint, ReaperOps
<1>9. op = "request_changes" => task[t].status \in REVIEW_STATUSES
  BY DEF Begin, Required
<1>10. Copied'
  <2> SUFFICES ASSUME NEW s \in Requests
               PROVE  /\ At(s, "write_back")' => req'[s].copy \in Row
                      /\ At(s, "save_return")' =>
                            /\ req'[s].copy \in Row
                            /\ req'[s].copy.status \in REVIEW_STATUSES
    BY DEF Copied
  <2>1. CASE s = r
    BY <1>1, <1>5, <1>7, <1>8, <1>9, <2>1 DEF At, TypeOK
  <2>2. CASE s # r
    BY <1>5, <2>2 DEF At, Copied, TypeOK
  <2> QED BY <2>1, <2>2
<1> QED BY <1>6, <1>10

\* The copies survive a statement that leads on to another point.
LEMMA CopiedStep ==
    ASSUME TypeOK, Copied, NEW r \in Requests,
           req'[r].pc \notin {"write_back", "save_return"},
           \A s \in Requests \ {r} : req'[s] = req[s]
    PROVE  Copied'
BY DEF Copied, At

\* A statement that leads on, and one that ends the handler.
LEMMA GoOn ==
    ASSUME TypeOK, Copied, NEW r \in Requests, ~ At(r, "idle"),
           NEW pc \in Points \ {"idle", "write_back", "save_return"}, Goto(r, pc),
           task' \in [Tasks -> Row],
           mstatus' \in [Milestones -> MilestoneStatuses],
           lock' \in [Milestones -> Requests \union {None}]
    PROVE  TypeOK' /\ Copied'
<1>1. /\ req' \in [Requests -> Active \union {Idle}] /\ req'[r].pc = pc
      /\ \A s \in Requests \ {r} : req'[s] = req[s]
  BY GotoType
<1> QED BY <1>1, CopiedStep DEF TypeOK

LEMMA EndIt ==
    ASSUME TypeOK, Copied, NEW r \in Requests, Finish(r),
           task' \in [Tasks -> Row],
           mstatus' \in [Milestones -> MilestoneStatuses],
           lock' \in [Milestones -> Requests \union {None}]
    PROVE  TypeOK' /\ Copied'
BY FinishType, CopiedStep DEF TypeOK

LEMMA StepType ==
    ASSUME TypeOK, Copied, NEW r \in Requests, Step(r)
    PROVE  TypeOK' /\ Copied'
<1> DEFINE t == req[r].task
<1>0. ASSUME ~ At(r, "idle")
      PROVE  /\ t \in Tasks /\ task[t] \in Row /\ req[r].to \in Statuses
             /\ req[r].op \in WebOps \union ReaperOps
             /\ MilestoneOf[t] \in Milestones
             /\ Unclaimed(task[t]) \in Row
             /\ Entered(task[t], req[r].to) \in Row
  <2>1. t \in Tasks /\ req[r].to \in Statuses /\ req[r].op \in WebOps \union ReaperOps
    BY <1>0, ActiveType DEF Active
  <2> QED BY <2>1, EnteredType, UnclaimedType, RequestsAssumption DEF TypeOK
<1>1. CASE ClearLease(r)
  <2>1. ~ At(r, "idle")
    BY <1>1 DEF ClearLease, At
  <2>2. PICK row \in {Unclaimed(task[t]), [task[t] EXCEPT !.review_lease = FALSE],
                      [task[t] EXCEPT !.integration_lease = FALSE]} : SetRow(t, row)
    BY <1>1 DEF ClearLease
  <2>3. row \in Row
    BY <1>0, <2>1 DEF Row
  <2>4. Goto(r, "transition") /\ UNCHANGED <<mstatus, lock>>
    BY <1>1 DEF ClearLease
  <2> QED BY <1>0, <2>1, <2>2, <2>3, <2>4, SetRowType, GoOn
          DEF TypeOK, Points
<1>2. CASE SaveReturnTo(r)
  <2>1. ~ At(r, "idle")
    BY <1>2 DEF SaveReturnTo, At
  <2>2. [task[t] EXCEPT !.return_to = req[r].copy.status] \in Row
    BY <1>0, <1>2, <2>1 DEF SaveReturnTo, Copied, Row
  <2>3. Goto(r, "transition") /\ UNCHANGED <<mstatus, lock>>
    BY <1>2 DEF SaveReturnTo
  <2> QED BY <1>0, <1>2, <2>1, <2>2, <2>3, SetRowType, GoOn
          DEF TypeOK, Points, SaveReturnTo
<1>3. CASE Transition(r)
  <2>1. ~ At(r, "idle")
    BY <1>3 DEF Transition, At
  <2>2. /\ task' \in [Tasks -> Row] /\ UNCHANGED <<mstatus, lock>>
    BY <1>0, <1>3, <2>1, SetRowType DEF Transition
  <2>3. CASE Finish(r)
    BY <2>2, <2>3, EndIt DEF TypeOK
  <2>4. CASE ~ Finish(r)
    <3>1. PICK pc \in {"clear_claim", "check_milestone"} : Goto(r, pc)
      BY <1>3, <2>4 DEF Transition, AfterTransition
    <3> QED BY <2>1, <2>2, <3>1, GoOn DEF TypeOK, Points
  <2> QED BY <2>3, <2>4
<1>4. CASE ClearClaim(r)
  <2>1. ~ At(r, "idle") /\ Finish(r) /\ UNCHANGED <<mstatus, lock>>
    BY <1>4 DEF ClearClaim, At
  <2> QED BY <1>0, <1>4, <2>1, SetRowType, EndIt
          DEF TypeOK, ClearClaim
<1>5. CASE CheckMilestone(r)
  <2>1. ~ At(r, "idle") /\ UNCHANGED <<task, mstatus, lock>>
    BY <1>5 DEF CheckMilestone, At
  <2>2. CASE Finish(r)
    BY <2>1, <2>2, EndIt DEF TypeOK
  <2>3. CASE Goto(r, "complete_milestone")
    BY <2>1, <2>3, GoOn DEF TypeOK, Points
  <2> QED BY <1>5, <2>2, <2>3 DEF CheckMilestone
<1>6. CASE CompleteMilestone(r)
  <2>1. Finish(r) /\ UNCHANGED <<task, lock>>
    BY <1>6 DEF CompleteMilestone
  <2>2. mstatus' \in [Milestones -> MilestoneStatuses]
    BY <1>6 DEF CompleteMilestone, TypeOK, MilestoneStatuses
  <2> QED BY <2>1, <2>2, EndIt DEF TypeOK
<1>7. CASE Renew(r)
  <2>1. ~ At(r, "idle") /\ Finish(r) /\ UNCHANGED <<mstatus, lock>>
    BY <1>7 DEF Renew, At
  <2>2. [task[t] EXCEPT !.claim_lease = "live"] \in Row
    BY <1>0, <2>1 DEF Row, Leases
  <2> QED BY <1>0, <1>7, <2>1, <2>2, SetRowType, EndIt
          DEF TypeOK, Renew
<1>8. CASE WriteBack(r)
  <2>1. ~ At(r, "idle") /\ Finish(r) /\ UNCHANGED <<mstatus, lock>>
    BY <1>8 DEF WriteBack, At
  <2> QED BY <1>0, <1>8, <2>1, SetRowType, EndIt
          DEF TypeOK, WriteBack, Copied
<1>9. CASE ForceStatus(r)
  <2>1. ~ At(r, "idle") /\ Goto(r, "reactivate") /\ UNCHANGED <<mstatus, lock>>
    BY <1>9 DEF ForceStatus, At
  <2>2. PICK row \in {task[t], Unclaimed(task[t])} :
           SetRow(t, [row EXCEPT !.status = req[r].to])
    BY <1>9 DEF ForceStatus
  <2>3. [row EXCEPT !.status = req[r].to] \in Row
    BY <1>0, <2>1 DEF Row
  <2> QED BY <1>0, <2>1, <2>2, <2>3, SetRowType, GoOn
          DEF TypeOK, Points
<1>10. CASE Reactivate(r)
  <2>1. Finish(r) /\ UNCHANGED <<task, lock>>
    BY <1>10 DEF Reactivate
  <2>2. mstatus' \in [Milestones -> MilestoneStatuses]
    BY <1>10 DEF Reactivate, TypeOK, MilestoneStatuses
  <2> QED BY <2>1, <2>2, EndIt DEF TypeOK
<1>11. CASE LockMilestone(r)
  <2>1. ~ At(r, "idle") /\ Goto(r, "check_slot") /\ UNCHANGED <<task, mstatus>>
    BY <1>11 DEF LockMilestone, At
  <2>2. lock' \in [Milestones -> Requests \union {None}]
    BY <1>11 DEF LockMilestone, TypeOK
  <2> QED BY <2>1, <2>2, GoOn DEF TypeOK, Points
<1>12. CASE CheckSlot(r)
  <2>1. ~ At(r, "idle") /\ UNCHANGED <<task, mstatus>>
    BY <1>12 DEF CheckSlot, At
  <2>2. CASE Goto(r, "enter_slot") /\ UNCHANGED lock
    BY <2>1, <2>2, GoOn DEF TypeOK, Points
  <2>3. CASE Finish(r) /\ Unlock(r)
    BY <2>1, <2>3, EndIt DEF TypeOK, Unlock
  <2> QED BY <1>12, <2>2, <2>3 DEF CheckSlot
<1>13. CASE EnterSlot(r)
  <2>1. ~ At(r, "idle") /\ Finish(r) /\ Unlock(r) /\ UNCHANGED mstatus
    BY <1>13 DEF EnterSlot, At
  <2>2. Entered(task[t], "integrating") \in Row
    BY <1>0, <2>1, EnteredType, StatusTypes
  <2>3. task' \in [Tasks -> Row]
    BY <1>0, <1>13, <2>1, <2>2, SetRowType DEF EnterSlot
  <2> QED BY <2>1, <2>3, EndIt DEF TypeOK, Unlock
<1> QED BY <1>1, <1>2, <1>3, <1>4, <1>5, <1>6, <1>7, <1>8, <1>9, <1>10, <1>11,
           <1>12, <1>13 DEF Step

LEMMA NextType == TypeOK /\ Copied /\ [Next]_vars => TypeOK' /\ Copied'
<1> SUFFICES ASSUME TypeOK, Copied, [Next]_vars PROVE TypeOK' /\ Copied'
  OBVIOUS
<1>1. ASSUME NEW r \in Requests, NEW op \in Ops, NEW t \in Tasks, NEW to \in Statuses,
             Begin(r, op, t, to)
      PROVE  TypeOK' /\ Copied'
  BY <1>1, BeginType, RequestsAssumption
<1>2. ASSUME NEW r \in Requests, Crash(r) PROVE TypeOK' /\ Copied'
  BY <1>2, FinishType, CopiedStep DEF Crash, Unlock, TypeOK
<1>3. ASSUME NEW t \in Tasks, NEW a \in Agents, Claim(t, a) PROVE TypeOK' /\ Copied'
  <2>1. [Entered(task[t], "doing") EXCEPT !.claimed_by = a, !.claim_lease = "live"]
           \in Row
    <3>1. Entered(task[t], "doing") \in Row
      BY EnteredType, StatusTypes DEF TypeOK
    <3> QED BY <3>1 DEF Row, Leases
  <2> QED BY <1>3, <2>1 DEF Claim, TypeOK, Copied, At
<1>4. ASSUME NEW t \in Tasks, LeaseRunsOut(t) PROVE TypeOK' /\ Copied'
  <2>1. [task[t] EXCEPT !.claim_lease = "expired"] \in Row
    BY DEF TypeOK, Row, Leases
  <2> QED BY <1>4, <2>1 DEF LeaseRunsOut, SetRow, TypeOK, Copied, At
<1>5. CASE UNCHANGED vars
  BY <1>5 DEF vars, TypeOK, Copied, At
<1> QED BY <1>1, <1>2, <1>3, <1>4, <1>5, StepType DEF Next

\* Whatever statements interleave, and wherever a process dies, the rows keep
\* the types of their columns.
THEOREM TypeCorrect == Spec => []TypeOK
<1>1. Spec => [](TypeOK /\ Copied)
  BY InitType, NextType, PTL DEF Spec
<1> QED BY <1>1, PTL

-----------------------------------------------------------------------------
(***************************************************************************)
(* The merge slot.  An administrator's reset and a PATCH write a status    *)
(* without asking for the slot; they are left out.  The invariant that     *)
(* carries the proof: a request between its check of the slot and its      *)
(* commit holds the row lock of the milestone, after the check the slot is *)
(* still free, and no other statement is about to write 'integrating'.     *)
(***************************************************************************)
NoForce == "reset" \notin Ops /\ "patch" \notin Ops

InSlotCode(r) == At(r, "check_slot") \/ At(r, "enter_slot")

Slotted(r) ==
    /\ InSlotCode(r) => lock[MilestoneOf[req[r].task]] = r
    /\ At(r, "enter_slot") => ~ SlotOccupied(req[r].task)
    /\ At(r, "clear_lease") \/ At(r, "save_return") \/ At(r, "transition")
          => req[r].to # "integrating"
    /\ ~ At(r, "write_back") /\ ~ At(r, "force")

SlotInv == \A r \in Requests : Slotted(r)

IInv == TypeOK /\ Copied /\ OneIntegrating /\ SlotInv

\* A step writes at most one row; the row it writes is 'integrating' only if
\* it was before, or if the step is the commit of take_merge_slot.
RowWrite(t, row) ==
    /\ task' = [task EXCEPT ![t] = row]
    /\ row.status = "integrating" =>
          \/ task[t].status = "integrating"
          \/ \E r \in Requests : EnterSlot(r) /\ req[r].task = t

LEMMA StepRows ==
    ASSUME IInv, NEW r \in Requests, Step(r)
    PROVE  task' = task \/ \E t \in Tasks, row \in Row : RowWrite(t, row)
<1> DEFINE t == req[r].task
<1> USE DEF IInv
<1>0. ASSUME ~ At(r, "idle")
      PROVE  t \in Tasks /\ task[t] \in Row /\ req[r].to \in Statuses
  BY <1>0, ActiveType DEF Active, TypeOK
<1>1. CASE ClearLease(r)
  <2>1. PICK row \in {Unclaimed(task[t]), [task[t] EXCEPT !.review_lease = FALSE],
                      [task[t] EXCEPT !.integration_lease = FALSE]} : SetRow(t, row)
    BY <1>1 DEF ClearLease
  <2>2. t \in Tasks /\ task[t] \in Row
    BY <1>0, <1>1 DEF ClearLease, At
  <2>3. row \in Row /\ row.status = task[t].status
    BY <2>2, UnclaimedType DEF Row
  <2> QED BY <2>1, <2>2, <2>3 DEF RowWrite, SetRow
<1>2. CASE SaveReturnTo(r)
  <2> DEFINE row == [task[t] EXCEPT !.return_to = req[r].copy.status]
  <2>1. t \in Tasks /\ task[t] \in Row
    BY <1>0, <1>2 DEF SaveReturnTo, At
  <2>2. row \in Row /\ row.status = task[t].status
    BY <1>2, <2>1 DEF SaveReturnTo, Copied, Row
  <2> QED BY <1>2, <2>1, <2>2 DEF RowWrite, SetRow, SaveReturnTo
<1>3. CASE Transition(r)
  <2> DEFINE row == Entered(task[t], req[r].to)
  <2>1. t \in Tasks /\ task[t] \in Row /\ req[r].to \in Statuses
    BY <1>0, <1>3 DEF Transition, At
  <2>2. row \in Row /\ row.status # "integrating"
    BY <1>3, <2>1, EnteredType DEF Transition, SlotInv, Slotted
  <2> QED BY <1>3, <2>1, <2>2 DEF RowWrite, SetRow, Transition
<1>4. CASE ClearClaim(r)
  <2>1. t \in Tasks /\ task[t] \in Row
    BY <1>0, <1>4 DEF ClearClaim, At
  <2> QED BY <1>4, <2>1, UnclaimedType DEF RowWrite, SetRow, ClearClaim
<1>5. CASE CheckMilestone(r) \/ CompleteMilestone(r) \/ Reactivate(r)
           \/ LockMilestone(r) \/ CheckSlot(r)
  BY <1>5 DEF CheckMilestone, CompleteMilestone, Reactivate, LockMilestone, CheckSlot
<1>6. CASE Renew(r)
  <2> DEFINE row == [task[t] EXCEPT !.claim_lease = "live"]
  <2>1. t \in Tasks /\ task[t] \in Row
    BY <1>0, <1>6 DEF Renew, At
  <2>2. row \in Row /\ row.status = task[t].status
    BY <2>1 DEF Row, Leases
  <2> QED BY <1>6, <2>1, <2>2 DEF RowWrite, SetRow, Renew
<1>7. CASE WriteBack(r) \/ ForceStatus(r)
  BY <1>7 DEF WriteBack, ForceStatus, SlotInv, Slotted
<1>8. CASE EnterSlot(r)
  <2> DEFINE row == Entered(task[t], "integrating")
  <2>1. t \in Tasks /\ task[t] \in Row
    BY <1>0, <1>8 DEF EnterSlot, At
  <2>2. row \in Row
    BY <2>1, EnteredType, StatusTypes
  <2> QED BY <1>8, <2>1, <2>2 DEF RowWrite, SetRow, EnterSlot
<1> QED BY <1>1, <1>2, <1>3, <1>4, <1>5, <1>6, <1>7, <1>8 DEF Step

LEMMA NextRows ==
    ASSUME IInv, [Next]_vars
    PROVE  task' = task \/ \E t \in Tasks, row \in Row : RowWrite(t, row)
<1> USE DEF IInv
<1>1. ASSUME NEW t \in Tasks, NEW a \in Agents, Claim(t, a)
      PROVE  \E row \in Row : RowWrite(t, row)
  <2> DEFINE row == [Entered(task[t], "doing") EXCEPT !.claimed_by = a,
                                                      !.claim_lease = "live"]
  <2>1. Entered(task[t], "doing") \in Row /\ Entered(task[t], "doing").status = "doing"
    BY EnteredType, StatusTypes DEF TypeOK
  <2>2. row \in Row /\ row.status = "doing"
    BY <2>1 DEF Row, Leases
  <2>3. task' = [task EXCEPT ![t] = row]
    BY <1>1 DEF Claim
  <2> QED BY <2>2, <2>3 DEF RowWrite
<1>2. ASSUME NEW t \in Tasks, LeaseRunsOut(t)
      PROVE  \E row \in Row : RowWrite(t, row)
  <2> DEFINE row == [task[t] EXCEPT !.claim_lease = "expired"]
  <2>1. row \in Row /\ row.status = task[t].status
    BY DEF Row, Leases, TypeOK
  <2> QED BY <1>2, <2>1 DEF LeaseRunsOut, SetRow, RowWrite
<1>3. ASSUME NEW r \in Requests, NEW op \in Ops, NEW t \in Tasks, NEW to \in Statuses,
             Begin(r, op, t, to) \/ Crash(r)
      PROVE  task' = task
  BY <1>3 DEF Begin, Crash
<1>4. ASSUME NEW r \in Requests, Crash(r) PROVE task' = task
  BY <1>4 DEF Crash
<1>5. CASE UNCHANGED vars
  BY <1>5 DEF vars
<1> QED BY <1>1, <1>2, <1>3, <1>4, <1>5, StepRows DEF Next

LEMMA OneIntegratingStep ==
    ASSUME IInv, [Next]_vars
    PROVE  OneIntegrating'
<1>1. CASE task' = task
  BY <1>1 DEF OneIntegrating, IInv
<1>2. ASSUME NEW s \in Tasks, NEW row \in Row, RowWrite(s, row)
      PROVE  OneIntegrating'
  <2> SUFFICES ASSUME NEW t \in Tasks, NEW u \in Tasks, MilestoneOf[t] = MilestoneOf[u],
                      task'[t].status = "integrating", task'[u].status = "integrating",
                      t # u
               PROVE  FALSE
    BY DEF OneIntegrating
  <2>1. task'[s] = row /\ \A v \in Tasks \ {s} : task'[v] = task[v]
    BY <1>2 DEF RowWrite, IInv, TypeOK
  <2>2. CASE t # s /\ u # s
    BY <2>1, <2>2 DEF IInv, OneIntegrating
  <2>3. row.status = "integrating" =>
           task[s].status = "integrating" \/ ~ SlotOccupied(s)
    BY <1>2 DEF RowWrite, EnterSlot, IInv, SlotInv, Slotted
  <2>4. CASE t = s
    BY <2>1, <2>3, <2>4 DEF SlotOccupied, Siblings, IInv, OneIntegrating
  <2>5. CASE u = s
    BY <2>1, <2>3, <2>5 DEF SlotOccupied, Siblings, IInv, OneIntegrating
  <2> QED BY <2>2, <2>4, <2>5
<1> QED BY <1>1, <1>2, NextRows

\* A step of r that is not a commit of take_merge_slot and takes no lock from
\* another request leaves the others where the invariant wants them.
LEMMA OthersSlotted ==
    ASSUME IInv, [Next]_vars, NEW r \in Requests, ~ \E s \in Requests : EnterSlot(s),
           NEW s \in Requests, req'[s] = req[s],
           \A m \in Milestones : lock[m] = s => lock'[m] = s
    PROVE  Slotted(s)'
<1>1. Slotted(s)
  BY DEF IInv, SlotInv
<1>2. \A u \in Tasks : task'[u].status = "integrating" => task[u].status = "integrating"
  BY NextRows DEF RowWrite, IInv, TypeOK
<1>3. (\E u \in Siblings(req[s].task) : task'[u].status = "integrating")
         => SlotOccupied(req[s].task)
  BY <1>2 DEF SlotOccupied, Siblings
<1>4. ~ At(s, "idle") => MilestoneOf[req[s].task] \in Milestones
  BY ActiveType, RequestsAssumption DEF IInv, Active
<1> QED BY <1>1, <1>3, <1>4 DEF Slotted, InSlotCode, At, SlotOccupied

LEMMA BeginSlotted ==
    ASSUME IInv, NoForce, NEW r \in Requests, NEW op \in Ops, NEW t \in Tasks,
           NEW to \in Statuses, Begin(r, op, t, to)
    PROVE  SlotInv'
<1>1. [Next]_vars
  BY DEF Next
<1>2. ~ \E s \in Requests : EnterSlot(s)
  <2> SUFFICES ASSUME NEW s \in Requests, EnterSlot(s) PROVE FALSE
    OBVIOUS
  <2>1. req' = [req EXCEPT ![s] = Idle] /\ req[s].pc = "enter_slot"
    BY DEF EnterSlot, Finish, At
  <2>2. req[r].pc = "idle"
    BY DEF Begin
  <2>3. req'[r] = req[r]
    BY <2>1, <2>2 DEF IInv, TypeOK
  <2>4. req'[r].pc = FirstPoint(op, to)
    BY DEF Begin, IInv, TypeOK
  <2> QED BY <2>2, <2>3, <2>4, FirstPointType, RequestsAssumption
<1>3. ASSUME NEW s \in Requests \ {r} PROVE Slotted(s)'
  BY <1>1, <1>2, OthersSlotted DEF Begin, IInv, TypeOK
<1>4. Slotted(r)'
  <2>1. req'[r].pc = FirstPoint(op, to) /\ req'[r].to = to
    BY DEF Begin, IInv, TypeOK
  <2>2. op \in WebOps \union ReaperOps /\ op \notin {"reset", "patch"}
    BY RequestsAssumption DEF NoForce
  <2>3. /\ FirstPoint(op, to) \notin {"check_slot", "enter_slot", "force", "write_back"}
    BY <2>2 DEF FirstPoint
  <2>4. FirstPoint(op, to) \in {"clear_lease", "save_return", "transition"}
           => to # "integrating"
    <3>1. to \in Targets(op, t, task[t])
      BY DEF Begin
    <3>2. CASE op = "approve"
      BY <2>2, <3>2 DEF FirstPoint, ReaperOps
    <3>3. CASE op \in ReaperOps
      BY <2>2, <3>1, <3>3 DEF Targets, ReaperOps
    <3>4. CASE op = "resubmit"
      <4>1. task[t].return_to \in REVIEW_STATUSES \union {None}
        BY DEF IInv, TypeOK, Row
      <4>2. to = task[t].return_to /\ to # None
        BY <3>1, <3>4 DEF Targets, ReaperOps
      <4> QED BY <4>1, <4>2 DEF REVIEW_STATUSES
    <3>5. CASE op = "heartbeat"
      BY <3>5 DEF FirstPoint, ReaperOps
    <3>6. CASE op \in WebOps \ {"approve", "resubmit", "heartbeat"}
      BY <2>2, <3>1, <3>6 DEF Targets, ReaperOps, WebOps
    <3> QED BY <2>2, <3>2, <3>3, <3>4, <3>5, <3>6
  <2> QED BY <2>1, <2>3, <2>4 DEF Slotted, InSlotCode, At
<1> QED BY <1>3, <1>4 DEF SlotInv

\* The commit of take_merge_slot: whoever else is past its check is so in
\* another milestone, since the lock of this one is the committer's.
LEMMA EnterSlotted ==
    ASSUME IInv, NEW r \in Requests, EnterSlot(r)
    PROVE  SlotInv'
<1> DEFINE t == req[r].task
<1>1. ~ At(r, "idle") /\ t \in Tasks /\ lock[MilestoneOf[t]] = r
  BY ActiveType DEF EnterSlot, At, IInv, SlotInv, Slotted, InSlotCode, Active
<1>2. \A s \in Requests \ {r} : req'[s] = req[s]
  BY DEF EnterSlot, Finish, IInv, TypeOK
<1>3. req'[r].pc = "idle"
  BY DEF EnterSlot, Finish, Idle, IInv, TypeOK
<1>4. \A u \in Tasks \ {t} : task'[u] = task[u]
  BY DEF EnterSlot, SetRow, IInv, TypeOK
<1>5. \A s \in Requests \ {r}, m \in Milestones : lock[m] = s => lock'[m] = s
  BY DEF EnterSlot, Unlock, IInv, TypeOK
<1>6. ASSUME NEW s \in Requests \ {r} PROVE Slotted(s)'
  <2>1. Slotted(s) /\ (~ At(s, "idle") => req[s].task \in Tasks)
    BY ActiveType DEF IInv, SlotInv, Active
  <2>2. ASSUME At(s, "enter_slot") PROVE t \notin Siblings(req[s].task)
    BY <1>1, <2>1, <2>2 DEF Slotted, InSlotCode, Siblings, At
  <2>3. At(s, "enter_slot") =>
           ~ \E u \in Siblings(req[s].task) : task'[u].status = "integrating"
    BY <1>4, <2>1, <2>2 DEF Slotted, SlotOccupied, Siblings
  <2>4. ~ At(s, "idle") => MilestoneOf[req[s].task] \in Milestones
    BY <2>1, RequestsAssumption
  <2> QED BY <1>2, <1>5, <2>1, <2>3, <2>4
          DEF Slotted, InSlotCode, At, SlotOccupied, Siblings
<1>7. Slotted(r)'
  BY <1>3 DEF Slotted, InSlotCode, At
<1> QED BY <1>6, <1>7 DEF SlotInv

\* A statement that is not that commit changes only its own request, and
\* leaves the locks of the others.
LEMMA StatementFrame ==
    ASSUME IInv, NEW r \in Requests, Step(r) \/ Crash(r), ~ EnterSlot(r)
    PROVE  /\ ~ \E s \in Requests : EnterSlot(s)
           /\ \A s \in Requests \ {r} :
                 /\ req'[s] = req[s]
                 /\ \A m \in Milestones : lock[m] = s => lock'[m] = s
<1>1. ~ At(r, "idle") /\ req'[r] # req[r]
      /\ \A s \in Requests \ {r} : req'[s] = req[s]
  <2>1. \/ At(r, "clear_lease") /\ Goto(r, "transition")
        \/ At(r, "save_return") /\ Goto(r, "transition")
        \/ /\ At(r, "transition")
           /\ \/ Finish(r)
              \/ \E pc \in {"clear_claim", "check_milestone"} : Goto(r, pc)
        \/ At(r, "check_milestone") /\ Goto(r, "complete_milestone")
        \/ At(r, "force") /\ Goto(r, "reactivate")
        \/ At(r, "lock_milestone") /\ Goto(r, "check_slot")
        \/ At(r, "check_slot") /\ Goto(r, "enter_slot")
        \/ ~ At(r, "idle") /\ Finish(r)
    BY DEF Step, Crash, ClearLease, SaveReturnTo, Transition, AfterTransition,
           ClearClaim, CheckMilestone, CompleteMilestone, Renew, WriteBack,
           ForceStatus, Reactivate, LockMilestone, CheckSlot, EnterSlot, At
  <2>2. ~ At(r, "idle")
    BY <2>1 DEF At
  <2>3. CASE Finish(r)
    BY <2>2, <2>3, FinishType DEF IInv, At
  <2>4. ASSUME NEW from \in Points, NEW pc \in Points \ {"idle", from},
               At(r, from), Goto(r, pc)
        PROVE  req'[r] # req[r] /\ \A s \in Requests \ {r} : req'[s] = req[s]
    <3>1. TypeOK /\ pc \in Points \ {"idle"}
      BY DEF IInv
    <3>2. req'[r].pc = pc /\ \A s \in Requests \ {r} : req'[s] = req[s]
      BY <2>2, <2>4, <3>1, GotoType
    <3> QED BY <2>4, <3>2 DEF At
  <2> QED BY <2>1, <2>2, <2>3, <2>4 DEF Points
<1>2. ASSUME NEW s \in Requests, EnterSlot(s) PROVE FALSE
  <2>1. \A u \in Requests \ {s} : req'[u] = req[u]
    BY <1>2, FinishType DEF EnterSlot, IInv
  <2> QED BY <1>1, <1>2, <2>1
<1>3. ASSUME NEW s \in Requests \ {r}, NEW m \in Milestones, lock[m] = s
      PROVE  lock'[m] = s
  <2>1. CASE LockMilestone(r)
    BY <1>3, <2>1, RequestsAssumption DEF LockMilestone, IInv, TypeOK
  <2>2. CASE Unlock(r)
    BY <1>3, <2>2 DEF Unlock
  <2>3. CASE lock' = lock
    BY <1>3, <2>3
  <2> QED BY <2>1, <2>2, <2>3
          DEF Step, Crash, ClearLease, SaveReturnTo, Transition, ClearClaim,
              CheckMilestone, CompleteMilestone, Renew, WriteBack, ForceStatus,
              Reactivate, CheckSlot
<1> QED BY <1>1, <1>2, <1>3

LEMMA StepSlotted ==
    ASSUME IInv, NEW r \in Requests, Step(r) \/ Crash(r)
    PROVE  SlotInv'
<1>1. CASE EnterSlot(r)
  BY <1>1, EnterSlotted
<1>2. CASE ~ EnterSlot(r)
  <2>1. [Next]_vars
    BY DEF Next
  <2>2. ASSUME NEW s \in Requests \ {r} PROVE Slotted(s)'
    BY <1>2, <2>1, StatementFrame, OthersSlotted
  <2>3. Slotted(r)'
    <3>1. CASE Finish(r)
      BY <3>1, FinishType DEF IInv, Slotted, InSlotCode, At
    <3>2. CASE ClearLease(r) \/ SaveReturnTo(r)
      <4>1. ~ At(r, "idle") /\ Goto(r, "transition") /\ req[r].to # "integrating"
        BY <3>2 DEF ClearLease, SaveReturnTo, At, IInv, SlotInv, Slotted
      <4>2. req'[r].pc = "transition" /\ req'[r].to = req[r].to
        BY <4>1, GotoType DEF IInv, Points
      <4> QED BY <4>1, <4>2 DEF Slotted, InSlotCode, At
    <3>3. ASSUME NEW pc \in {"clear_claim", "check_milestone",
                             "complete_milestone", "reactivate"},
                 ~ At(r, "idle"), Goto(r, pc)
          PROVE  Slotted(r)'
      BY <3>3, GotoType DEF IInv, Points, Slotted, InSlotCode, At
    <3>4. CASE LockMilestone(r)
      <4>1. ~ At(r, "idle") /\ Goto(r, "check_slot")
        BY <3>4 DEF LockMilestone, At
      <4>2. req'[r].pc = "check_slot" /\ req'[r].task = req[r].task
        BY <4>1, GotoType DEF IInv, Points
      <4>3. req[r].task \in Tasks
        BY <4>1, ActiveType DEF IInv, Active
      <4>4. lock'[MilestoneOf[req[r].task]] = r
        BY <3>4, <4>3, RequestsAssumption DEF LockMilestone, IInv, TypeOK
      <4> QED BY <4>2, <4>4 DEF Slotted, InSlotCode, At
    <3>5. CASE CheckSlot(r) /\ ~ Finish(r)
      <4>1. ~ At(r, "idle") /\ Goto(r, "enter_slot") /\ lock' = lock /\ task' = task
            /\ lock[MilestoneOf[req[r].task]] = r /\ ~ SlotOccupied(req[r].task)
        BY <3>5 DEF CheckSlot, At, IInv, SlotInv, Slotted, InSlotCode
      <4>2. req'[r].pc = "enter_slot" /\ req'[r].task = req[r].task
        BY <4>1, GotoType DEF IInv, Points
      <4>3. ~ SlotOccupied(req[r].task)'
        BY <4>1, <4>2 DEF SlotOccupied, Siblings
      <4> QED BY <4>1, <4>2, <4>3 DEF Slotted, InSlotCode, At
    <3>6. CASE Transition(r) /\ ~ Finish(r)
      <4>1. \E pc \in {"clear_claim", "check_milestone"} : Goto(r, pc)
        BY <3>6 DEF Transition, AfterTransition
      <4>2. ~ At(r, "idle")
        BY <3>6 DEF Transition, At
      <4> QED BY <3>3, <4>1, <4>2
    <3>7. CASE CheckMilestone(r) /\ ~ Finish(r)
      BY <3>3, <3>7 DEF CheckMilestone, At
    <3>8. CASE ForceStatus(r)
      BY <3>3, <3>8 DEF ForceStatus, At
    <3> QED BY <1>2, <3>1, <3>2, <3>4, <3>5, <3>6, <3>7, <3>8
            DEF Step, Crash, ClearClaim, CompleteMilestone, Renew, WriteBack,
                Reactivate
  <2> QED BY <2>2, <2>3 DEF SlotInv
<1> QED BY <1>1, <1>2

LEMMA NextSlotted ==
    ASSUME IInv, NoForce, [Next]_vars
    PROVE  SlotInv'
<1>1. CASE req' = req /\ lock' = lock /\ ~ \E s \in Requests : EnterSlot(s)
  <2> SUFFICES ASSUME NEW s \in Requests PROVE Slotted(s)'
    BY DEF SlotInv
  <2> QED BY <1>1, OthersSlotted
<1>2. ASSUME req' = req, NEW s \in Requests, EnterSlot(s) PROVE FALSE
  BY <1>2, FinishType DEF EnterSlot, At, IInv
<1>3. ASSUME NEW t \in Tasks, LeaseRunsOut(t) \/ \E a \in Agents : Claim(t, a)
      PROVE  SlotInv'
  BY <1>1, <1>2, <1>3 DEF Claim, LeaseRunsOut
<1>4. CASE UNCHANGED vars
  BY <1>1, <1>2, <1>4 DEF vars
<1>5. ASSUME NEW r \in Requests, NEW op \in Ops, NEW t \in Tasks, NEW to \in Statuses,
             Begin(r, op, t, to)
      PROVE  SlotInv'
  BY <1>5, BeginSlotted
<1>6. ASSUME NEW r \in Requests, Step(r) \/ Crash(r) PROVE SlotInv'
  BY <1>6, StepSlotted
<1> QED BY <1>3, <1>4, <1>5, <1>6 DEF Next

LEMMA InvStep == NoForce /\ IInv /\ [Next]_vars => IInv'
<1> SUFFICES ASSUME NoForce, IInv, [Next]_vars PROVE IInv'
  OBVIOUS
<1>1. TypeOK' /\ Copied'
  BY NextType DEF IInv
<1> QED BY <1>1, OneIntegratingStep, NextSlotted DEF IInv

LEMMA InitInv == Init => IInv
<1> SUFFICES ASSUME Init PROVE IInv
  OBVIOUS
<1>1. OneIntegrating
  BY DEF Init, Admitted, OneIntegrating
<1>2. SlotInv
  BY DEF Init, Idle, SlotInv, Slotted, InSlotCode, At
<1> QED BY <1>1, <1>2, InitType DEF IInv

\* The row lock of take_merge_slot serialises the merges of a milestone for
\* any number of concurrent requests and reapers that read stale tasks, and
\* with processes that die anywhere, as long as no statement writes a status
\* past the state machine (reset, PATCH).
THEOREM MergesAreSerial == NoForce => (Spec => []OneIntegrating)
<1> SUFFICES ASSUME NoForce PROVE Spec => []OneIntegrating
  OBVIOUS
<1>1. Spec => []IInv
  BY InitInv, InvStep, PTL DEF Spec
<1> QED BY <1>1, PTL DEF IInv

(***************************************************************************)
(* Refinement of the abstract merge slot.                                  *)
(***************************************************************************)

\* A row written outside the commit of take_merge_slot is a release, if it was
\* the row of the task that is merging, and a stutter otherwise.
LEMMA WriteImplements ==
    ASSUME IInv, NEW s \in Tasks, NEW row \in Row, RowWrite(s, row)
    PROVE  [Slot!Next]_Merging
<1> DEFINE m == MilestoneOf[s]
<1>1. m \in Milestones
  BY RequestsAssumption
<1>2. task'[s] = row /\ \A v \in Tasks \ {s} : task'[v] = task[v]
  BY DEF RowWrite, IInv, TypeOK
<1>3. \A n \in Milestones \ {m} : Merging'[n] = Merging[n]
  BY <1>2 DEF Merging
<1>4. CASE task[s].status = "integrating" <=> row.status = "integrating"
  BY <1>2, <1>4 DEF Merging
<1>5. CASE task[s].status = "integrating" /\ row.status # "integrating"
  <2>1. Merging[m] = {s}
    BY <1>1, <1>5 DEF Merging, IInv, OneIntegrating
  <2>2. Merging'[m] = {}
    <3>1. \A v \in Tasks \ {s} : MilestoneOf[v] # m \/ task[v].status # "integrating"
      BY <1>5 DEF IInv, OneIntegrating
    <3>2. Merging'[m] =
             {v \in Tasks : MilestoneOf[v] = m /\ task'[v].status = "integrating"}
      BY <1>1 DEF Merging
    <3> QED BY <1>2, <1>5, <3>1, <3>2
  <2>3. Merging' = [Merging EXCEPT ![m] = {}]
    BY <1>3, <2>2 DEF Merging
  <2>4. Slot!Release(m)
    BY <2>1, <2>3 DEF Slot!Release
  <2> QED BY <1>1, <2>4 DEF Slot!Next
<1>6. CASE task[s].status # "integrating" /\ row.status = "integrating"
  <2>1. PICK r \in Requests : EnterSlot(r) /\ req[r].task = s
    BY <1>6 DEF RowWrite
  <2>2. ~ SlotOccupied(s)
    BY <2>1 DEF EnterSlot, IInv, SlotInv, Slotted
  <2>3. Merging[m] = {}
    BY <1>1, <1>6, <2>2 DEF Merging, SlotOccupied, Siblings
  <2>4. Merging'[m] = {s}
    <3>1. \A v \in Tasks \ {s} : MilestoneOf[v] # m \/ task[v].status # "integrating"
      BY <2>2 DEF SlotOccupied, Siblings
    <3>2. Merging'[m] =
             {v \in Tasks : MilestoneOf[v] = m /\ task'[v].status = "integrating"}
      BY <1>1 DEF Merging
    <3> QED BY <1>2, <1>6, <3>1, <3>2
  <2>5. Merging' = [Merging EXCEPT ![m] = {s}]
    BY <1>3, <2>4 DEF Merging
  <2>6. Slot!Acquire(m, s)
    BY <2>3, <2>5 DEF Slot!Acquire
  <2> QED BY <1>1, <2>6 DEF Slot!Next
<1> QED BY <1>4, <1>5, <1>6

LEMMA StepImplements ==
    ASSUME IInv, [Next]_vars
    PROVE  [Slot!Next]_Merging
<1>1. CASE task' = task
  BY <1>1 DEF Merging
<1> QED BY <1>1, NextRows, WriteImplements

LEMMA InitImplements == Init => Slot!Init
BY DEF Init, Admitted, Merging, Slot!Init

\* The handlers, cut into their statements, implement the abstract merge slot:
\* a merge begins only in a milestone where none is under way, and a slot
\* changes hands only by way of being free.
THEOREM SlotImplemented == NoForce => (Spec => SlotSpec)
<1> SUFFICES ASSUME NoForce PROVE Spec => SlotSpec
  OBVIOUS
<1>1. Spec => []IInv
  BY InitInv, InvStep, PTL DEF Spec
<1>2. IInv /\ [Next]_vars => [Slot!Next]_Merging
  BY StepImplements
<1> QED BY <1>1, <1>2, InitImplements, PTL DEF Spec, SlotSpec, Slot!Spec

-----------------------------------------------------------------------------
(***************************************************************************)
(* What one statement of a request leaves alone.                           *)
(***************************************************************************)

\* The points no handler begins with, but for `transition`.
LaterPoints ==
    {"transition", "clear_claim", "check_milestone", "complete_milestone",
     "reactivate", "check_slot", "enter_slot"}

\* The other requests, the other rows, and what the request has read.
LEMMA StatementFrames ==
    ASSUME TypeOK, Copied, NEW r \in Requests, Step(r) \/ Crash(r)
    PROVE  /\ ~ At(r, "idle") /\ req[r] \in Active /\ req[r].task \in Tasks
           /\ \A s \in Requests \ {r} : req'[s] = req[s]
           /\ \A u \in Tasks \ {req[r].task} : task'[u] = task[u]
           /\ At(r, "idle")' \/ \E pc \in LaterPoints : Goto(r, pc) /\ At(r, pc)'
<1>1. ~ At(r, "idle")
  BY DEF Step, Crash, ClearLease, SaveReturnTo, Transition, ClearClaim, CheckMilestone,
         CompleteMilestone, Renew, WriteBack, ForceStatus, Reactivate, LockMilestone,
         CheckSlot, EnterSlot, At
<1>2. req[r] \in Active /\ req[r].task \in Tasks
  BY <1>1, ActiveType DEF Active
<1>3. Finish(r) \/ \E pc \in LaterPoints : Goto(r, pc)
  BY DEF Step, Crash, ClearLease, SaveReturnTo, Transition, AfterTransition, ClearClaim,
         CheckMilestone, CompleteMilestone, Renew, WriteBack, ForceStatus, Reactivate,
         LockMilestone, CheckSlot, EnterSlot, LaterPoints
<1>4. task' = task \/ \E row : SetRow(req[r].task, row)
  BY DEF Step, Crash, ClearLease, SaveReturnTo, Transition, ClearClaim, CheckMilestone,
         CompleteMilestone, Renew, WriteBack, ForceStatus, Reactivate, LockMilestone,
         CheckSlot, EnterSlot
<1>5. \A u \in Tasks \ {req[r].task} : task'[u] = task[u]
  BY <1>4 DEF SetRow, TypeOK
<1>6. CASE Finish(r)
  BY <1>1, <1>2, <1>5, <1>6, FinishType DEF At
<1>7. ASSUME NEW pc \in LaterPoints, Goto(r, pc)
      PROVE  At(r, pc)' /\ \A s \in Requests \ {r} : req'[s] = req[s]
  BY <1>1, <1>7, GotoType DEF At, LaterPoints, Points
<1> QED BY <1>1, <1>2, <1>3, <1>5, <1>6, <1>7

\* What it has read stays with a request that goes on.
LEMMA GoingOn ==
    ASSUME TypeOK, Copied, NEW r \in Requests, Step(r) \/ Crash(r), ~ At(r, "idle")'
    PROVE  /\ req'[r].op = req[r].op /\ req'[r].task = req[r].task /\ req'[r].to = req[r].to
           /\ req'[r].copy = req[r].copy /\ req'[r].mcopy = req[r].mcopy
<1>1. PICK pc \in LaterPoints : Goto(r, pc)
  BY StatementFrames
<1>2. req'[r] = [req[r] EXCEPT !.pc = pc]
  BY <1>1 DEF Goto, TypeOK
<1>3. req[r] \in Active
  BY StatementFrames
<1> QED BY <1>2, <1>3 DEF Active

\* Its own row, when no statement writes a status past the state machine.
LEMMA StatementRow ==
    ASSUME IInv, NEW r \in Requests, Step(r)
    PROVE  LET row == task[req[r].task]
               new == task'[req[r].task]
           IN  \/ Transition(r) /\ new = Entered(row, req[r].to)
               \/ EnterSlot(r) /\ new = Entered(row, "integrating")
               \/ ClearLease(r) /\ new.status = row.status
               \/ /\ ~ Transition(r) /\ ~ EnterSlot(r) /\ ~ ClearLease(r)
                  /\ new.status = row.status
                  /\ new.review_lease = row.review_lease
                  /\ new.integration_lease = row.integration_lease
<1> USE DEF IInv
<1> DEFINE t == req[r].task
<1>0. t \in Tasks /\ task[t] \in Row /\ DOMAIN task = Tasks
  BY StatementFrames DEF TypeOK
<1>1. CASE Transition(r)
  BY <1>0, <1>1 DEF Transition, SetRow, TypeOK
<1>2. CASE EnterSlot(r)
  BY <1>0, <1>2 DEF EnterSlot, SetRow, TypeOK
<1>3. CASE ClearLease(r)
  <2>1. PICK row \in {Unclaimed(task[t]), [task[t] EXCEPT !.review_lease = FALSE],
                      [task[t] EXCEPT !.integration_lease = FALSE]} : SetRow(t, row)
    BY <1>3 DEF ClearLease
  <2>2. row.status = task[t].status
    BY <1>0, <2>1, UnclaimedType DEF Row
  <2> QED BY <1>0, <1>3, <2>1, <2>2 DEF SetRow, TypeOK
<1>4. CASE ~ Transition(r) /\ ~ EnterSlot(r) /\ ~ ClearLease(r)
  <2>1. ~ WriteBack(r) /\ ~ ForceStatus(r)
    BY DEF WriteBack, ForceStatus, SlotInv, Slotted
  <2>2. \/ task' = task
        \/ SetRow(t, Unclaimed(task[t]))
        \/ SetRow(t, [task[t] EXCEPT !.claim_lease = "live"])
        \/ SetRow(t, [task[t] EXCEPT !.return_to = req[r].copy.status])
    BY <1>4, <2>1 DEF Step, SaveReturnTo, ClearClaim, CheckMilestone, CompleteMilestone,
                      Renew, Reactivate, LockMilestone, CheckSlot
  <2>3. /\ task'[t].status = task[t].status /\ task'[t].review_lease = task[t].review_lease
        /\ task'[t].integration_lease = task[t].integration_lease
    BY <1>0, <2>2 DEF SetRow, Unclaimed, Row, TypeOK
  <2> QED BY <1>4, <2>3
<1> QED BY <1>1, <1>2, <1>3, <1>4

-----------------------------------------------------------------------------
(***************************************************************************)
(* Deadlines.  A reaper that took one away is about to move the task.      *)
(***************************************************************************)

ReapersAim ==
    \A r \in Requests :
       /\ At(r, "clear_lease") => req[r].op \in ReaperOps
       /\ ~ At(r, "idle") /\ req[r].op \in ReaperOps => req[r].to = "needs_attention"

WatchInv == IInv /\ ReapersAim /\ WatchedWhileWaiting

LEMMA BegunRequest ==
    ASSUME TypeOK, NEW r \in Requests, NEW op \in Ops, NEW t \in Tasks, NEW to \in Statuses,
           Begin(r, op, t, to)
    PROVE  /\ At(r, "idle") /\ UNCHANGED <<task, mstatus, lock>>
           /\ \A s \in Requests \ {r} : req'[s] = req[s]
           /\ req'[r].pc = FirstPoint(op, to) /\ req'[r].op = op /\ req'[r].task = t
           /\ req'[r].to = to /\ req'[r].mcopy = mstatus[MilestoneOf[t]]
           /\ req'[r].copy = IF op \in {"patch", "request_changes"} THEN task[t] ELSE None
           /\ to \in Targets(op, t, task[t])
           /\ Direct(op) \/ Accepts(task[t].status, to, Context(t))
BY DEF Begin, TypeOK, At

LEMMA ReapersAimStep == TypeOK /\ Copied /\ ReapersAim /\ [Next]_vars => ReapersAim'
<1> SUFFICES ASSUME TypeOK, Copied, ReapersAim, [Next]_vars PROVE ReapersAim'
  OBVIOUS
<1>1. ASSUME NEW r \in Requests, NEW op \in Ops, NEW t \in Tasks, NEW to \in Statuses,
             Begin(r, op, t, to)
      PROVE  ReapersAim'
  <2>1. op \in ReaperOps => to = "needs_attention"
    BY <1>1, BegunRequest DEF Targets, ReaperOps
  <2>2. FirstPoint(op, to) = "clear_lease" => op \in ReaperOps
    BY DEF FirstPoint
  <2> QED BY <1>1, <2>1, <2>2, BegunRequest DEF ReapersAim, At
<1>2. ASSUME NEW r \in Requests, Step(r) \/ Crash(r) PROVE ReapersAim'
  <2>1. ~ At(r, "clear_lease")'
    BY <1>2, StatementFrames DEF LaterPoints, At
  <2> QED BY <1>2, <2>1, StatementFrames, GoingOn DEF ReapersAim, At
<1>3. CASE req' = req
  BY <1>3 DEF ReapersAim, At
<1> QED BY <1>1, <1>2, <1>3 DEF Next, Claim, LeaseRunsOut, vars

LEMMA WatchStep ==
    ASSUME WatchInv, ~ Crashes, [Next]_vars, TypeOK', Copied'
    PROVE  WatchedWhileWaiting'
<1> USE DEF WatchInv, IInv
<1> SUFFICES ASSUME NEW t \in Tasks,
                    \/ /\ task'[t].status = "pending_completion_review"
                       /\ ~ task'[t].review_lease
                    \/ task'[t].status = "integrating" /\ ~ task'[t].integration_lease
             PROVE  \E s \in Requests :
                       At(s, "transition")' /\ req'[s].op \in ReaperOps /\ req'[s].task = t
  BY DEF WatchedWhileWaiting
<1> DEFINE Unwatched ==
              \/ task[t].status = "pending_completion_review" /\ ~ task[t].review_lease
              \/ task[t].status = "integrating" /\ ~ task[t].integration_lease
<1>0. Unwatched => \E s \in Requests :
                      At(s, "transition") /\ req[s].op \in ReaperOps /\ req[s].task = t
  BY DEF WatchedWhileWaiting
<1>1. CASE req' = req /\ Unwatched
  BY <1>0, <1>1 DEF At
<1>2. ASSUME NEW r \in Requests, NEW op \in Ops, NEW u \in Tasks, NEW to \in Statuses,
             Begin(r, op, u, to)
      PROVE  \E s \in Requests :
                At(s, "transition")' /\ req'[s].op \in ReaperOps /\ req'[s].task = t
  <2>1. task' = task /\ At(r, "idle") /\ \A s \in Requests \ {r} : req'[s] = req[s]
    BY <1>2, BegunRequest
  <2>2. Unwatched
    BY <2>1
  <2> QED BY <1>0, <2>1, <2>2 DEF At
<1>3. ASSUME NEW r \in Requests, Step(r)
      PROVE  \E s \in Requests :
                At(s, "transition")' /\ req'[s].op \in ReaperOps /\ req'[s].task = t
  <2>1. /\ ~ At(r, "idle") /\ \A s \in Requests \ {r} : req'[s] = req[s]
        /\ req[r].task # t => task'[t] = task[t]
    BY <1>3, StatementFrames
  <2>2. CASE req[r].task # t
    BY <1>0, <2>1, <2>2 DEF At
  <2>3. CASE req[r].task = t
    <3>1. CASE ClearLease(r)
      <4>1. At(r, "clear_lease") /\ Goto(r, "transition")
        BY <3>1 DEF ClearLease
      <4>0. TypeOK /\ "transition" \in Points \ {"idle"}
        BY DEF Points
      <4>2. At(r, "transition")' /\ ~ At(r, "idle")'
        BY <2>1, <4>0, <4>1, GotoType DEF At
      <4>3. req'[r].op = req[r].op /\ req'[r].task = req[r].task
        BY <1>3, <4>2, GoingOn
      <4> QED BY <2>3, <4>1, <4>2, <4>3 DEF ReapersAim
    <3>2. ASSUME NEW to \in Statuses, task'[t] = Entered(task[t], to) PROVE FALSE
      <4>1. task[t] \in Row
        BY DEF TypeOK
      <4>2. /\ task'[t].status = to
            /\ to = "pending_completion_review" => task'[t].review_lease
            /\ to = "integrating" => task'[t].integration_lease
        BY <3>2, <4>1 DEF Row, Entered
      <4> QED BY <4>2
    <3>3. CASE Transition(r) \/ EnterSlot(r)
      <4>1. req[r].to \in Statuses /\ "integrating" \in Statuses
        BY <1>3, StatementFrames, StatusTypes DEF Active
      <4>2. ~ ClearLease(r) /\ ~ (Transition(r) /\ EnterSlot(r))
        BY <3>3 DEF Transition, EnterSlot, ClearLease, At
      <4>3. \/ task'[t] = Entered(task[t], req[r].to)
            \/ task'[t] = Entered(task[t], "integrating")
        BY <1>3, <2>3, <3>3, <4>2, StatementRow
      <4> QED BY <3>2, <4>1, <4>3
    <3>4. CASE ~ ClearLease(r) /\ ~ Transition(r) /\ ~ EnterSlot(r)
      <4>1. Unwatched
        BY <1>3, <2>3, <3>4, StatementRow
      <4>2. ~ At(r, "transition")
        BY <1>3, <3>4 DEF Step, ClearLease, SaveReturnTo, Transition, ClearClaim,
           CheckMilestone, CompleteMilestone, Renew, WriteBack, ForceStatus, Reactivate,
           LockMilestone, CheckSlot, EnterSlot, At
      <4> QED BY <1>0, <2>1, <4>1, <4>2 DEF At
    <3> QED BY <3>1, <3>3, <3>4
  <2> QED BY <2>2, <2>3
<1>4. ASSUME NEW u \in Tasks, NEW a \in Agents, Claim(u, a) PROVE req' = req /\ Unwatched
  <2>1. task[u] \in Row
    BY DEF TypeOK
  <2>2. task'[u].status = "doing" /\ \A v \in Tasks \ {u} : task'[v] = task[v]
    BY <1>4, <2>1 DEF Claim, Entered, Row, TypeOK
  <2> QED BY <1>4, <2>2 DEF Claim
<1>5. ASSUME NEW u \in Tasks, LeaseRunsOut(u) PROVE req' = req /\ Unwatched
  <2>1. task[u] \in Row
    BY DEF TypeOK
  <2>2. task'[u].status = "doing" /\ \A v \in Tasks \ {u} : task'[v] = task[v]
    BY <1>5, <2>1 DEF LeaseRunsOut, SetRow, Row, TypeOK
  <2> QED BY <1>5, <2>2 DEF LeaseRunsOut
<1>6. CASE UNCHANGED vars
  BY <1>1, <1>6 DEF vars
<1> QED BY <1>1, <1>2, <1>3, <1>4, <1>5, <1>6 DEF Next, Crash

\* WatchedWhileWaiting, for any number of requests and reapers that act on
\* stale reads: a task under review or in the merge slot has a deadline, or the
\* reaper that found it past is about to move the task.  A process that dies
\* between the two statements, a reset and a PATCH are left out: each of them
\* breaks it.
THEOREM WaitingIsWatched == NoForce /\ ~ Crashes => (Spec => []WatchedWhileWaiting)
<1> SUFFICES ASSUME NoForce, ~ Crashes PROVE Spec => []WatchedWhileWaiting
  OBVIOUS
<1>1. Init => WatchInv
  <2> SUFFICES ASSUME Init PROVE ReapersAim /\ WatchedWhileWaiting
    BY InitInv DEF WatchInv
  <2> QED BY DEF Init, Idle, Admitted, ReapersAim, WatchedWhileWaiting, At
<1>2. WatchInv /\ [Next]_vars => WatchInv'
  <2> SUFFICES ASSUME WatchInv, [Next]_vars PROVE WatchInv'
    OBVIOUS
  <2>1. IInv'
    BY InvStep DEF WatchInv
  <2> QED BY <2>1, ReapersAimStep, WatchStep DEF WatchInv, IInv
<1> QED BY <1>1, <1>2, PTL DEF Spec, WatchInv

-----------------------------------------------------------------------------
(***************************************************************************)
(* Milestones.  Of the requests that end the last tasks of a milestone the *)
(* one that commits last finds them all ended.                             *)
(***************************************************************************)

TasksOf(m) == {t \in Tasks : MilestoneOf[t] = m}
AllEnded(m) == TasksOf(m) # {} /\ \A t \in TasksOf(m) : task[t].status \in TERMINAL_STATUSES

\* A request that has ended a task of m and has its milestone still to complete.
Completing(r, m) ==
    /\ At(r, "check_milestone") \/ At(r, "complete_milestone")
    /\ MilestoneOf[req[r].task] = m

EndedIsNoticed ==
    \A m \in Milestones :
       AllEnded(m) => mstatus[m] = "completed" \/ \E r \in Requests : Completing(r, m)

\* The status of the milestone as it was read is never ahead of the row, the
\* handlers that save twice do not end a task, and none reopens a milestone.
CompletesOnce ==
    \A r \in Requests :
       /\ ~ At(r, "idle") /\ req[r].mcopy = "completed"
             => mstatus[MilestoneOf[req[r].task]] = "completed"
       /\ ~ At(r, "idle") /\ req[r].op \in {"unclaim", "fail", "recover"}
             => req[r].to \notin TERMINAL_STATUSES
       /\ ~ At(r, "reactivate")

MilestoneInv == IInv /\ CompletesOnce /\ EndedIsNoticed

LEMMA MstatusStep ==
    ASSUME TypeOK, Copied, NEW r \in Requests, Step(r) \/ Crash(r), ~ At(r, "reactivate")
    PROVE  \A m \in Milestones :
              /\ mstatus[m] = "completed" => mstatus'[m] = "completed"
              /\ mstatus'[m] # mstatus[m] => CompleteMilestone(r)
BY DEF Step, Crash, ClearLease, SaveReturnTo, Transition, ClearClaim, CheckMilestone,
       CompleteMilestone, Renew, WriteBack, ForceStatus, Reactivate, LockMilestone,
       CheckSlot, EnterSlot, TypeOK

LEMMA CompletesOnceStep ==
    ASSUME MilestoneInv, [Next]_vars
    PROVE  CompletesOnce'
<1>t. TypeOK /\ Copied /\ CompletesOnce
  BY DEF MilestoneInv, IInv
<1>1. ASSUME NEW r \in Requests, NEW op \in Ops, NEW t \in Tasks, NEW to \in Statuses,
             Begin(r, op, t, to)
      PROVE  CompletesOnce'
  <2>1. op \in {"unclaim", "fail", "recover"} => to \notin TERMINAL_STATUSES
    BY <1>t, <1>1, BegunRequest DEF Targets, ReaperOps, TERMINAL_STATUSES
  <2>2. FirstPoint(op, to) # "reactivate"
    BY FirstPointType, RequestsAssumption
  <2> QED BY <1>t, <1>1, <2>1, <2>2, BegunRequest DEF CompletesOnce, At
<1>2. ASSUME NEW r \in Requests, Step(r) \/ Crash(r) PROVE CompletesOnce'
  <2>1. ~ At(r, "reactivate")'
    <3>1. ~ ForceStatus(r)
      BY DEF ForceStatus, MilestoneInv, IInv, SlotInv, Slotted
    <3>2. CASE Finish(r)
      BY <1>t, <3>2, FinishType DEF At
    <3>3. ASSUME NEW pc \in LaterPoints \ {"reactivate"}, Goto(r, pc)
          PROVE  ~ At(r, "reactivate")'
      BY <1>t, <1>2, <3>3, StatementFrames, GotoType DEF At, LaterPoints, Points
    <3> QED BY <1>2, <3>1, <3>2, <3>3
            DEF Step, Crash, ClearLease, SaveReturnTo, Transition, AfterTransition, ClearClaim,
                CheckMilestone, CompleteMilestone, Renew, WriteBack, Reactivate,
                LockMilestone, CheckSlot, EnterSlot, LaterPoints
  <2>2. \A m \in Milestones : mstatus[m] = "completed" => mstatus'[m] = "completed"
    BY <1>t, <1>2, MstatusStep DEF CompletesOnce
  <2>3. \A s \in Requests : ~ At(s, "idle") => MilestoneOf[req[s].task] \in Milestones
    BY <1>t, ActiveType, RequestsAssumption DEF Active
  <2>4. ASSUME NEW s \in Requests, ~ At(s, "idle")'
        PROVE  /\ ~ At(s, "idle") /\ req'[s].mcopy = req[s].mcopy /\ req'[s].task = req[s].task
               /\ req'[s].op = req[s].op /\ req'[s].to = req[s].to
    BY <1>t, <1>2, <2>4, StatementFrames, GoingOn DEF At
  <2>5. \A s \in Requests : ~ At(s, "reactivate")'
    BY <1>t, <1>2, <2>1, StatementFrames DEF CompletesOnce, At
  <2> QED BY <1>t, <2>2, <2>3, <2>4, <2>5 DEF CompletesOnce
<1>3. CASE req' = req /\ mstatus' = mstatus
  BY <1>t, <1>3 DEF CompletesOnce, At
<1> QED BY <1>1, <1>2, <1>3 DEF Next, Claim, LeaseRunsOut, vars

LEMMA EndedIsNoticedStep ==
    ASSUME MilestoneInv, ~ Crashes, [Next]_vars
    PROVE  EndedIsNoticed'
<1>t. TypeOK /\ Copied /\ CompletesOnce /\ EndedIsNoticed /\ IInv
  BY DEF MilestoneInv, IInv
<1> SUFFICES ASSUME NEW m \in Milestones, AllEnded(m)'
             PROVE  mstatus'[m] = "completed" \/ \E s \in Requests : Completing(s, m)'
  BY DEF EndedIsNoticed
<1>0. AllEnded(m) => mstatus[m] = "completed" \/ \E s \in Requests : Completing(s, m)
  BY <1>t DEF EndedIsNoticed
<1>1. CASE req' = req /\ mstatus' = mstatus /\ AllEnded(m)
  BY <1>0, <1>1 DEF Completing, At
<1>2. ASSUME NEW r \in Requests, NEW op \in Ops, NEW t \in Tasks, NEW to \in Statuses,
             Begin(r, op, t, to)
      PROVE  mstatus'[m] = "completed" \/ \E s \in Requests : Completing(s, m)'
  <2>1. task' = task /\ mstatus' = mstatus /\ At(r, "idle")
        /\ \A s \in Requests \ {r} : req'[s] = req[s]
    BY <1>t, <1>2, BegunRequest
  <2>2. AllEnded(m)
    BY <2>1 DEF AllEnded
  <2> QED BY <1>0, <2>1, <2>2 DEF Completing, At
<1>3. ASSUME NEW r \in Requests, Step(r)
      PROVE  mstatus'[m] = "completed" \/ \E s \in Requests : Completing(s, m)'
  <2>1. /\ ~ At(r, "idle") /\ req[r] \in Active /\ req[r].task \in Tasks
        /\ \A s \in Requests \ {r} : req'[s] = req[s]
        /\ \A u \in Tasks \ {req[r].task} : task'[u] = task[u]
    BY <1>t, <1>3, StatementFrames
  <2>2. mstatus[m] = "completed" => mstatus'[m] = "completed"
    BY <1>t, <1>3, MstatusStep DEF CompletesOnce
  <2>3. CASE MilestoneOf[req[r].task] # m
    <3>1. AllEnded(m)
      BY <2>1, <2>3 DEF AllEnded, TasksOf
    <3> QED BY <1>0, <2>1, <2>2, <2>3, <3>1 DEF Completing, At
  <2>4. CASE MilestoneOf[req[r].task] = m
    <3>0. task'[req[r].task].status \in TERMINAL_STATUSES
      BY <2>1, <2>4 DEF AllEnded, TasksOf
    <3>1. ASSUME NEW pc \in {"check_milestone", "complete_milestone"}, Goto(r, pc)
          PROVE  Completing(r, m)'
      <4>1. pc \in Points \ {"idle"}
        BY DEF Points
      <4>2. req'[r].pc = pc /\ req'[r].task = req[r].task
        BY <1>t, <2>1, <3>1, <4>1, GotoType
      <4> QED BY <2>4, <4>2 DEF Completing, At
    <3>2. CASE Transition(r)
      <4>1. task[req[r].task] \in Row /\ req[r].to \in Statuses
        BY <1>t, <2>1 DEF Active, TypeOK
      <4>2. task'[req[r].task].status = req[r].to
        BY <2>1, <1>t, <3>2, <4>1, EnteredType DEF Transition, SetRow, TypeOK
      <4>3. AfterTransition(req[r].op, req[r].to) = "check_milestone"
        BY <1>t, <2>1, <3>0, <4>2 DEF CompletesOnce, AfterTransition
      <4> QED BY <3>1, <3>2, <4>3 DEF Transition
    <3>3. CASE EnterSlot(r)
      <4>1. task[req[r].task] \in Row
        BY <1>t, <2>1 DEF TypeOK
      <4>2. task'[req[r].task].status = "integrating"
        BY <1>t, <2>1, <3>3, <4>1, EnteredType, StatusTypes DEF EnterSlot, SetRow, TypeOK
      <4> QED BY <3>0, <4>2 DEF TERMINAL_STATUSES
    <3>4. CASE CompleteMilestone(r)
      BY <1>t, <2>4, <3>4 DEF CompleteMilestone, TypeOK
    <3>5. CASE CheckMilestone(r)
      <4>1. /\ task' = task /\ \A u \in Tasks : MilestoneOf[u] = m => task[u].status \in TERMINAL_STATUSES
        BY <3>5 DEF CheckMilestone, AllEnded, TasksOf
      <4>2. CASE req[r].mcopy \in {"active", "pending"}
        BY <2>4, <3>1, <3>5, <4>1, <4>2 DEF CheckMilestone
      <4>3. CASE req[r].mcopy = "completed"
        BY <1>t, <2>1, <2>2, <2>4, <4>3 DEF CompletesOnce
      <4> QED BY <2>1, <4>2, <4>3 DEF Active, MilestoneStatuses
    <3>6. CASE ~ Transition(r) /\ ~ EnterSlot(r) /\ ~ CompleteMilestone(r) /\ ~ CheckMilestone(r)
      <4>1. task'[req[r].task].status = task[req[r].task].status
        BY <1>t, <1>3, <3>6, StatementRow
      <4>2. AllEnded(m)
        BY <2>1, <4>1 DEF AllEnded, TasksOf
      <4>3. ~ At(r, "check_milestone") /\ ~ At(r, "complete_milestone")
        BY <1>3, <3>6 DEF Step, ClearLease, SaveReturnTo, Transition, ClearClaim,
           CheckMilestone, CompleteMilestone, Renew, WriteBack, ForceStatus, Reactivate,
           LockMilestone, CheckSlot, EnterSlot, At
      <4> QED BY <1>0, <2>1, <2>2, <4>2, <4>3 DEF Completing, At
    <3> QED BY <3>2, <3>3, <3>4, <3>5, <3>6
  <2> QED BY <2>3, <2>4
<1>4. ASSUME NEW u \in Tasks, NEW a \in Agents, Claim(u, a)
      PROVE  req' = req /\ mstatus' = mstatus /\ AllEnded(m)
  <2>1. task[u] \in Row
    BY <1>t DEF TypeOK
  <2>2. task'[u].status = "doing" /\ \A v \in Tasks \ {u} : task'[v] = task[v]
    BY <1>t, <1>4, <2>1 DEF Claim, Entered, Row, TypeOK
  <2>3. u \notin TasksOf(m)
    BY <2>2 DEF AllEnded, TERMINAL_STATUSES
  <2> QED BY <1>4, <2>2, <2>3 DEF Claim, AllEnded, TasksOf
<1>5. ASSUME NEW u \in Tasks, LeaseRunsOut(u)
      PROVE  req' = req /\ mstatus' = mstatus /\ AllEnded(m)
  <2>1. task[u] \in Row
    BY <1>t DEF TypeOK
  <2>2. task'[u].status = "doing" /\ \A v \in Tasks \ {u} : task'[v] = task[v]
    BY <1>t, <1>5, <2>1 DEF LeaseRunsOut, SetRow, Row, TypeOK
  <2>3. u \notin TasksOf(m)
    BY <2>2 DEF AllEnded, TERMINAL_STATUSES
  <2> QED BY <1>5, <2>2, <2>3 DEF LeaseRunsOut, AllEnded, TasksOf
<1>6. CASE UNCHANGED vars
  <2>1. AllEnded(m)
    BY <1>6 DEF vars, AllEnded
  <2> QED BY <1>1, <1>6, <2>1 DEF vars
<1> QED BY <1>1, <1>2, <1>3, <1>4, <1>5, <1>6 DEF Next, Crash

\* LastOneCompletes, for any number of overlapping requests: when all tasks of
\* a milestone have ended and nothing is under way the milestone is completed.
\* A process that dies before its check, a reset and a PATCH are left out.
THEOREM LastOneCompletesMilestone == NoForce /\ ~ Crashes => (Spec => []LastOneCompletes)
<1> SUFFICES ASSUME NoForce, ~ Crashes PROVE Spec => []LastOneCompletes
  OBVIOUS
<1>1. Init => MilestoneInv
  <2> SUFFICES ASSUME Init PROVE CompletesOnce /\ EndedIsNoticed
    BY InitInv DEF MilestoneInv
  <2> QED BY DEF Init, Idle, Admitted, CompletesOnce, EndedIsNoticed, AllEnded, TasksOf, At,
                 TERMINAL_STATUSES
<1>2. MilestoneInv /\ [Next]_vars => MilestoneInv'
  <2> SUFFICES ASSUME MilestoneInv, [Next]_vars PROVE MilestoneInv'
    OBVIOUS
  <2>1. IInv'
    BY InvStep DEF MilestoneInv
  <2> QED BY <2>1, CompletesOnceStep, EndedIsNoticedStep DEF MilestoneInv
<1>3. MilestoneInv => LastOneCompletes
  BY DEF MilestoneInv, EndedIsNoticed, LastOneCompletes, AllEnded, TasksOf, Completing, Quiet, At
<1> QED BY <1>1, <1>2, <1>3, PTL DEF Spec

-----------------------------------------------------------------------------
(* Claims.                                                                 *)

NoPatch == \A r \in Requests : ~ At(r, "write_back")

LEMMA NoPatchStep ==
    ASSUME TypeOK, Copied, NoPatch, "patch" \notin Ops, [Next]_vars
    PROVE  NoPatch'
<1>1. ASSUME NEW r \in Requests, NEW op \in Ops, NEW t \in Tasks, NEW to \in Statuses,
             Begin(r, op, t, to)
      PROVE  NoPatch'
  <2>1. FirstPoint(op, to) # "write_back"
    BY DEF FirstPoint
  <2> QED BY <1>1, <2>1, BegunRequest DEF NoPatch, At
<1>2. ASSUME NEW r \in Requests, Step(r) \/ Crash(r) PROVE NoPatch'
  <2>1. ~ At(r, "write_back")'
    BY <1>2, StatementFrames DEF LaterPoints, At
  <2> QED BY <1>2, <2>1, StatementFrames DEF NoPatch, At
<1>3. CASE req' = req
  BY <1>3 DEF NoPatch, At
<1> QED BY <1>1, <1>2, <1>3 DEF Next, Claim, LeaseRunsOut, vars

\* A statement that is not the save of a PATCH leaves the claimant or clears it.
LEMMA ClaimantAfter ==
    ASSUME TypeOK, Copied, NEW r \in Requests, Step(r), ~ At(r, "write_back")
    PROVE  task'[req[r].task].claimed_by \in {task[req[r].task].claimed_by, None}
<1> DEFINE t == req[r].task
<1>0. t \in Tasks /\ task[t] \in Row /\ DOMAIN task = Tasks
  BY StatementFrames DEF TypeOK
<1>1. task' = task \/ \E row : SetRow(t, row) /\ row.claimed_by \in {task[t].claimed_by, None}
  <2>1. /\ Unclaimed(task[t]).claimed_by = None
        /\ \A to : Entered(task[t], to).claimed_by = task[t].claimed_by
        /\ [task[t] EXCEPT !.claim_lease = "live"].claimed_by = task[t].claimed_by
        /\ [task[t] EXCEPT !.review_lease = FALSE].claimed_by = task[t].claimed_by
        /\ [task[t] EXCEPT !.integration_lease = FALSE].claimed_by = task[t].claimed_by
        /\ [task[t] EXCEPT !.return_to = req[r].copy.status].claimed_by = task[t].claimed_by
        /\ \A row \in Row : [row EXCEPT !.status = req[r].to].claimed_by = row.claimed_by
    BY <1>0 DEF Row, Unclaimed, Entered
  <2>2. Unclaimed(task[t]) \in Row
    BY <1>0, UnclaimedType
  <2>3. CASE ForceStatus(r)
    BY <1>0, <2>1, <2>2, <2>3 DEF ForceStatus
  <2>4. CASE ~ ForceStatus(r)
    BY <2>1, <2>4 DEF Step, ClearLease, SaveReturnTo, Transition, ClearClaim, CheckMilestone,
       CompleteMilestone, Renew, WriteBack, Reactivate, LockMilestone, CheckSlot, EnterSlot, At
  <2> QED BY <2>3, <2>4
<1> QED BY <1>0, <1>1 DEF SetRow, TypeOK

\* ClaimNotStolen, for any number of agents, requests and reapers, with resets
\* and with processes that die: whatever overlaps, a claim is given up before
\* another agent has the task.  Only a PATCH, which writes every column back,
\* may bring an earlier claimant back.
THEOREM ClaimsAreNotStolen == "patch" \notin Ops => (Spec => ClaimNotStolen)
<1> SUFFICES ASSUME "patch" \notin Ops PROVE Spec => ClaimNotStolen
  OBVIOUS
<1> DEFINE Kept(t) ==
              /\ task[t].status = "doing"
              /\ task'[t].status = "doing"
              /\ task'[t].claimed_by # None
              => task'[t].claimed_by = task[t].claimed_by
<1>1. Init => TypeOK /\ Copied /\ NoPatch
  <2>1. Init => NoPatch
    BY DEF Init, Idle, NoPatch, At
  <2> QED BY <2>1, InitType
<1>2. TypeOK /\ Copied /\ NoPatch /\ [Next]_vars => (TypeOK /\ Copied /\ NoPatch)'
  BY NextType, NoPatchStep
<1>3. TypeOK /\ Copied /\ NoPatch /\ [Next]_vars => \A t \in Tasks : Kept(t)
  <2> SUFFICES ASSUME TypeOK, Copied, NoPatch, [Next]_vars, NEW t \in Tasks
               PROVE  Kept(t)
    OBVIOUS
  <2>1. ASSUME NEW r \in Requests, Step(r) PROVE Kept(t)
    BY <2>1, StatementFrames, ClaimantAfter DEF NoPatch
  <2>2. ASSUME NEW u \in Tasks, NEW a \in Agents, Claim(u, a) PROVE Kept(t)
    BY <2>2 DEF Claim, TypeOK
  <2>3. ASSUME NEW u \in Tasks, LeaseRunsOut(u) PROVE Kept(t)
    BY <2>3 DEF LeaseRunsOut, SetRow, TypeOK, Row
  <2>4. CASE task' = task
    BY <2>4
  <2> QED BY <2>1, <2>2, <2>3, <2>4 DEF Next, Begin, Crash, vars
<1> QED BY <1>1, <1>2, <1>3, PTL DEF Spec, ClaimNotStolen

-----------------------------------------------------------------------------
(***************************************************************************)
(* Final statuses.  Of requests that do not overlap, each finds the row as *)
(* it read it, or claimed meanwhile.                                       *)
(***************************************************************************)
OneAtATime == \A r, s \in Requests : r = s

Undecided ==
    {"clear_lease", "save_return", "transition", "lock_milestone", "check_slot", "enter_slot"}

ReadsHold ==
    \A r \in Requests :
       /\ req[r].pc \in Undecided => task[req[r].task].status \notin TERMINAL_STATUSES
       /\ At(r, "write_back") /\ task[req[r].task].status \in TERMINAL_STATUSES
             => req[r].copy.status = task[req[r].task].status
       /\ ~ At(r, "force")

FinalInv == TypeOK /\ Copied /\ ReadsHold

LEMMA EndsAreEnds ==
    \A from \in TERMINAL_STATUSES, to \in Statuses : \A ctx : ~ Accepts(from, to, ctx)
BY DEF TERMINAL_STATUSES, Accepts, VALID_TRANSITIONS

LEMMA StatusAfter ==
    ASSUME TypeOK, Copied, NEW r \in Requests, Step(r), ~ At(r, "force")
    PROVE  LET t == req[r].task
           IN  \/ task'[t].status = task[t].status
               \/ At(r, "transition") \/ At(r, "enter_slot")
               \/ At(r, "write_back") /\ task'[t].status = req[r].copy.status
<1> DEFINE t == req[r].task
<1>0. t \in Tasks /\ task[t] \in Row /\ DOMAIN task = Tasks
  BY StatementFrames DEF TypeOK
<1>1. CASE WriteBack(r)
  BY <1>0, <1>1 DEF WriteBack, SetRow, TypeOK
<1>2. CASE ~ WriteBack(r) /\ ~ Transition(r) /\ ~ EnterSlot(r)
  <2>1. /\ Unclaimed(task[t]).status = task[t].status
        /\ [task[t] EXCEPT !.claim_lease = "live"].status = task[t].status
        /\ [task[t] EXCEPT !.review_lease = FALSE].status = task[t].status
        /\ [task[t] EXCEPT !.integration_lease = FALSE].status = task[t].status
        /\ [task[t] EXCEPT !.return_to = req[r].copy.status].status = task[t].status
    BY <1>0 DEF Row, Unclaimed
  <2>2. task' = task \/ \E row : SetRow(t, row) /\ row.status = task[t].status
    BY <1>2, <2>1 DEF Step, ClearLease, SaveReturnTo, ClearClaim, CheckMilestone,
       CompleteMilestone, Renew, ForceStatus, Reactivate, LockMilestone, CheckSlot, At
  <2> QED BY <1>0, <2>2 DEF SetRow, TypeOK
<1> QED BY <1>1, <1>2 DEF Transition, EnterSlot

LEMMA ReadsHoldStep ==
    ASSUME FinalInv, OneAtATime, "reset" \notin Ops, [Next]_vars
    PROVE  ReadsHold'
<1>t. TypeOK /\ Copied /\ ReadsHold
  BY DEF FinalInv
<1>1. ASSUME NEW r \in Requests, NEW op \in Ops, NEW t \in Tasks, NEW to \in Statuses,
             Begin(r, op, t, to)
      PROVE  ReadsHold'
  <2>1. FirstPoint(op, to) \in Undecided => task[t].status \notin TERMINAL_STATUSES
    <3>1. Direct(op) => FirstPoint(op, to) \notin Undecided
      BY DEF Direct, FirstPoint, ReaperOps, Undecided
    <3> QED BY <1>t, <1>1, <3>1, BegunRequest, EndsAreEnds
  <2>2. FirstPoint(op, to) = "write_back" => op = "patch"
    BY DEF FirstPoint, ReaperOps
  <2>3. FirstPoint(op, to) # "force"
    BY DEF FirstPoint
  <2>4. \A s \in Requests : s = r
    BY DEF OneAtATime
  <2> QED BY <1>t, <1>1, <2>1, <2>2, <2>3, <2>4, BegunRequest DEF ReadsHold, At
<1>2. ASSUME NEW r \in Requests, Step(r) \/ Crash(r) PROVE ReadsHold'
  <2>1. ~ At(r, "write_back")' /\ ~ At(r, "force")'
    BY <1>t, <1>2, StatementFrames DEF LaterPoints, At
  <2>2. ASSUME req'[r].pc \in Undecided
        PROVE  task'[req'[r].task].status \notin TERMINAL_STATUSES
    <3>1. ~ At(r, "idle")' /\ Step(r)
      BY <1>t, <1>2, <2>2, FinishType DEF Crash, Undecided, At
    <3>2. req'[r].task = req[r].task
      BY <1>t, <3>1, GoingOn
    <3>3. /\ req[r].pc \in Undecided
          /\ task'[req[r].task].status = task[req[r].task].status
      <4>1. PICK pc \in LaterPoints : Goto(r, pc) /\ At(r, pc)'
        BY <1>t, <3>1, StatementFrames
      <4>2. pc \in {"transition", "check_slot", "enter_slot"}
        BY <2>2, <4>1 DEF At, LaterPoints, Undecided
      <4>3. At(r, "clear_lease") \/ At(r, "save_return") \/ At(r, "lock_milestone") \/ At(r, "check_slot")
        <5>1. ASSUME Finish(r) PROVE FALSE
          BY <1>t, <5>1, <3>1, FinishType DEF At
        <5>2. ASSUME NEW to \in {"clear_claim", "check_milestone", "complete_milestone", "reactivate"},
                     Goto(r, to)
              PROVE  FALSE
          <6>1. At(r, to)'
            BY <1>t, <3>1, <5>2, StatementFrames, GotoType DEF Points, At
          <6> QED BY <4>1, <4>2, <6>1 DEF At
        <5> QED BY <3>1, <5>1, <5>2
                DEF Step, ClearLease, SaveReturnTo, Transition, AfterTransition, ClearClaim,
                    CheckMilestone, CompleteMilestone, Renew, WriteBack, ForceStatus, Reactivate,
                    LockMilestone, CheckSlot, EnterSlot
      <4> QED BY <1>t, <3>1, <4>3, StatusAfter DEF Undecided, At
    <3> QED BY <1>t, <3>2, <3>3 DEF ReadsHold
  <2>3. \A s \in Requests : s = r
    BY DEF OneAtATime
  <2> QED BY <2>1, <2>2, <2>3 DEF ReadsHold
<1>3. ASSUME NEW u \in Tasks, NEW a \in Agents, Claim(u, a) PROVE ReadsHold'
  <2>1. task[u] \in Row
    BY <1>t DEF TypeOK
  <2>2. req' = req /\ task'[u].status = "doing" /\ \A v \in Tasks \ {u} : task'[v] = task[v]
    BY <1>t, <1>3, <2>1 DEF Claim, Entered, Row, TypeOK
  <2>3. \A s \in Requests : ~ At(s, "idle") => req[s].task \in Tasks
    BY <1>t, ActiveType DEF Active
  <2> QED BY <1>t, <2>2, <2>3 DEF ReadsHold, At, Undecided, TERMINAL_STATUSES
<1>4. ASSUME NEW u \in Tasks, LeaseRunsOut(u) PROVE ReadsHold'
  <2>1. task[u] \in Row
    BY <1>t DEF TypeOK
  <2>2. req' = req /\ \A v \in Tasks : task'[v].status = task[v].status
    BY <1>t, <1>4, <2>1 DEF LeaseRunsOut, SetRow, Row, TypeOK
  <2>3. \A s \in Requests : ~ At(s, "idle") => req[s].task \in Tasks
    BY <1>t, ActiveType DEF Active
  <2> QED BY <1>t, <2>2, <2>3 DEF ReadsHold, At, Undecided
<1>5. CASE UNCHANGED vars
  BY <1>t, <1>5 DEF vars, ReadsHold, At
<1> QED BY <1>1, <1>2, <1>3, <1>4, <1>5 DEF Next

\* TerminalIsFinal for requests that do not overlap each other, while agents
\* claim, deadlines go by and processes die: what makes a done or cancelled
\* task move again is a second request in between, or a reset.
THEOREM AloneTerminalStays == OneAtATime /\ "reset" \notin Ops => (Spec => TerminalIsFinal)
<1> SUFFICES ASSUME OneAtATime, "reset" \notin Ops PROVE Spec => TerminalIsFinal
  OBVIOUS
<1> DEFINE Stays(t) == task[t].status \in TERMINAL_STATUSES => task'[t].status = task[t].status
<1>1. Init => FinalInv
  <2>1. Init => ReadsHold
    BY DEF Init, Idle, ReadsHold, At, Undecided
  <2> QED BY <2>1, InitType DEF FinalInv
<1>2. FinalInv /\ [Next]_vars => FinalInv'
  BY NextType, ReadsHoldStep DEF FinalInv
<1>3. FinalInv /\ [Next]_vars => \A t \in Tasks : Stays(t)
  <2> SUFFICES ASSUME FinalInv, [Next]_vars, NEW t \in Tasks PROVE Stays(t)
    OBVIOUS
  <2>t. TypeOK /\ Copied /\ ReadsHold
    BY DEF FinalInv
  <2>1. ASSUME NEW r \in Requests, Step(r) PROVE Stays(t)
    <3>1. CASE req[r].task # t
      BY <2>t, <2>1, <3>1, StatementFrames
    <3>2. CASE req[r].task = t
      BY <2>t, <2>1, <3>2, StatusAfter DEF ReadsHold, Undecided, At
    <3> QED BY <3>1, <3>2
  <2>2. ASSUME NEW u \in Tasks, NEW a \in Agents, Claim(u, a) PROVE Stays(t)
    BY <2>t, <2>2 DEF Claim, TypeOK, TERMINAL_STATUSES
  <2>3. ASSUME NEW u \in Tasks, LeaseRunsOut(u) PROVE Stays(t)
    BY <2>t, <2>3 DEF LeaseRunsOut, SetRow, TypeOK, Row
  <2>4. CASE task' = task
    BY <2>4
  <2> QED BY <2>1, <2>2, <2>3, <2>4 DEF Next, Begin, Crash, vars
<1> QED BY <1>1, <1>2, <1>3, PTL DEF Spec, TerminalIsFinal
=============================================================================
