-------------------------- MODULE AgentTools_proofs --------------------------
(***************************************************************************)
(* The MCP tools implement the lifecycle: every step of ToolSpec is a step *)
(* of TaskLifecycle's Spec, so what is proved of that holds with the tools *)
(* in use.                                                                 *)
(***************************************************************************)
EXTENDS AgentTools, TaskLifecycle_proofs

\* To write a row its own milestone is to leave it.
LEMMA RowUnmoved ==
    ASSUME NEW row \in Row, NEW m, m = row.milestone
    PROVE  [row EXCEPT !.milestone = m] = row
BY Zenon DEF Row

LEMMA TaskUnmoved ==
    ASSUME TypeOK, NEW t \in Tasks, NEW m \in Milestones \union {None},
           m = task[t].milestone
    PROVE  task = [task EXCEPT ![t].milestone = m]
<1>1. task \in [Tasks -> Row] /\ task[t] \in Row
  BY Zenon DEF TypeOK
<1>2. [task[t] EXCEPT !.milestone = m] = task[t]
  BY <1>1, RowUnmoved, Zenon
<1>3. task = [task EXCEPT ![t] = task[t]]
  BY <1>1, Zenon
<1> QED BY <1>2, <1>3, Zenon

\* To write a task its own dependencies is to leave the links.
LEMMA LinksUnchanged ==
    ASSUME TypeOK, NEW t \in Tasks
    PROVE  links = (links \ ({t} \X Tasks)) \union ({t} \X Dependencies(t))
<1>1. links \subseteq Tasks \X Tasks
  BY ConstantsAssumption DEF TypeOK
<1> QED BY <1>1 DEF Dependencies

(***************************************************************************)
(* An assignment is the edit of the assignee alone.                        *)
(***************************************************************************)
LEMMA AssigneeIsEdit ==
    ASSUME TypeOK, ToolOptions \subseteq Optional, NEW t \in Tasks,
           NEW who \in Agents \union {None}, SetAssignee(t, who)
    PROVE  \E m \in Milestones \union {None}, b \in Briefs, deps \in SUBSET Tasks :
              EditTask(t, m, b, deps)
<1>1. PICK m \in Milestones \union {None} : m = task[t].milestone
  BY Zenon DEF TypeOK, Row
<1>2. PICK deps \in SUBSET Tasks : deps = Dependencies(t)
  BY Zenon DEF Dependencies
<1>3. PICK b \in Briefs : brief' = [brief EXCEPT ![t] = b]
  BY Zenon DEF SetAssignee
<1>4. Exists(t) /\ UNCHANGED <<task, links, milestone, events>>
  BY Zenon DEF SetAssignee
<1>5. "patch" \in Optional /\ "mcp" \in Optional
  BY Zenon DEF ToolOptions
<1>6. task' = [task EXCEPT ![t].milestone = m]
  BY <1>1, <1>4, TaskUnmoved, Zenon
<1>7. links' = (links \ ({t} \X Tasks)) \union ({t} \X deps)
  BY <1>2, <1>4, LinksUnchanged, Zenon
<1>8. EditTask(t, m, b, deps)
  BY Zenon, <1>1, <1>2, <1>3, <1>4, <1>5, <1>6, <1>7 DEF EditTask
<1> QED BY <1>8

(***************************************************************************)
(* Each group of tools, handler by handler.                                *)
(***************************************************************************)
LEMMA TaskToolsAreHandlers ==
    ASSUME TypeOK, ToolOptions \subseteq Optional, NEW t \in Tasks, TaskTools(t)
    PROVE  Handler
<1>0. {"create", "patch", "move", "link", "delete", "mcp"} \subseteq Optional
  BY Zenon DEF ToolOptions
<1>1. CASE SubmitTask(t)
  BY <1>1, Zenon DEF Handler, PeopleNext, Submit, SubmitTask, ToolTransition
<1>2. CASE PutAside(t)
  <2>1. Block(t) \/ Unblock(t) \/ Defer(t) \/ Cancel(t)
    BY <1>2, Zenon DEF PutAside, ToolTransition, Block, Unblock, Defer, Cancel
  <2> QED BY <2>1, Zenon DEF Handler, PeopleNext
<1>3. ASSUME NEW target \in {"todo", "draft"}, RecoverTask(t, target)
      PROVE  Handler
  <2>1. McpRecover(t, target)
    BY <1>0, <1>3, Zenon DEF RecoverTask, McpRecover, ToolTransition
  <2> QED BY <2>1, Zenon DEF Handler, PeopleNext
<1>4. CASE RemoveTask(t)
  <2>1. DeleteTask(t)
    BY <1>0, <1>4, Zenon DEF RemoveTask, DeleteTask
  <2> QED BY <2>1, Zenon DEF Handler
<1>5. ASSUME NEW who \in Agents \union {None}, SetAssignee(t, who)
      PROVE  Handler
  BY <1>5, AssigneeIsEdit, Zenon DEF Handler
<1>6. ASSUME NEW m \in Milestones \union {None}, NEW b \in Briefs,
             NEW deps \in SUBSET Tasks, NewTask(t, m, b, deps)
      PROVE  Handler
  <2>1. MayDependOn(t, deps)
    BY <1>0, <1>6, Zenon DEF NewTask, MayDependOn
  <2>2. CreateTask(t, m, b, deps)
    BY <1>0, <1>6, <2>1, Zenon DEF NewTask, CreateTask
  <2> QED BY <2>2, Zenon DEF Handler
<1>7. ASSUME NEW m \in Milestones \union {None}, NEW b \in Briefs,
             NEW deps \in SUBSET Tasks, UpdateTask(t, m, b, deps)
      PROVE  Handler
  <2>1. deps # Dependencies(t) => MayDependOn(t, deps)
    BY <1>0, <1>7, Zenon DEF UpdateTask, MayDependOn
  <2>2. EditTask(t, m, b, deps)
    BY <1>0, <1>7, <2>1, Zenon DEF UpdateTask, EditTask
  <2> QED BY <2>2, Zenon DEF Handler
<1>8. ASSUME NEW u \in Tasks, LinkTasks(t, u) \/ UnlinkTasks(t, u)
      PROVE  Handler
  <2>1. CreateLink(t, u) \/ DeleteLink(t, u)
    BY <1>0, <1>8, Zenon DEF LinkTasks, UnlinkTasks, CreateLink, DeleteLink
  <2> QED BY <2>1, Zenon DEF Handler
<1> QED BY <1>1, <1>2, <1>3, <1>4, <1>5, <1>6, <1>7, <1>8, Zenon
        DEF TaskTools, AssignTask, UnassignTask

LEMMA ManageTaskIsHandlers ==
    ASSUME TypeOK, ToolOptions \subseteq Optional, NEW t \in Tasks, ManageTask(t)
    PROVE  Handler
<1>0. {"create", "patch", "move", "delete", "mcp"} \subseteq Optional
  BY Zenon DEF ToolOptions
<1>1. CASE ManageSubmit(t)
  BY <1>1, Zenon DEF Handler, PeopleNext, Submit, ManageSubmit
<1>2. CASE ManageBlock(t)
  BY <1>2, Zenon DEF Handler, PeopleNext, Block, ManageBlock
<1>3. ASSUME NEW to \in {"todo", "deferred", "cancelled"}, ManageTransition(t, to)
      PROVE  Handler
  <2>1. Unblock(t) \/ Defer(t) \/ Cancel(t)
    BY <1>3, Zenon DEF ManageTransition, Unblock, Defer, Cancel
  <2> QED BY <2>1, Zenon DEF Handler, PeopleNext
<1>4. CASE ManageDelete(t)
  <2>1. DeleteTask(t)
    BY <1>0, <1>4, Zenon DEF ManageDelete, DeleteTask
  <2> QED BY <2>1, Zenon DEF Handler
<1>5. ASSUME NEW who \in Agents \union {None}, SetAssignee(t, who)
      PROVE  Handler
  BY <1>5, AssigneeIsEdit, Zenon DEF Handler
<1>6. ASSUME NEW target \in {"todo", "draft"}, ManageRecover(t, target)
      PROVE  Handler
  <2>1. Recover(t, target)
    BY <1>6, Zenon DEF ManageRecover, Recover
  <2> QED BY <2>1, Zenon DEF Handler, PeopleNext
<1>7. ASSUME NEW m \in Milestones \union {None}, NEW b \in Briefs,
             ManageCreate(t, m, b)
      PROVE  Handler
  <2>1. links' = links \union ({t} \X {}) /\ {} \in SUBSET Tasks
    BY <1>7 DEF ManageCreate
  <2>2. CreateTask(t, m, b, {})
    BY <1>0, <1>7, <2>1, Zenon DEF ManageCreate, CreateTask
  <2> QED BY <2>1, <2>2, Zenon DEF Handler
<1>8. ASSUME NEW m \in Milestones \union {None}, NEW b \in Briefs,
             ManageUpdate(t, m, b)
      PROVE  Handler
  <2>1. PICK deps \in SUBSET Tasks : deps = Dependencies(t)
    BY Zenon DEF Dependencies
  <2>2. links' = (links \ ({t} \X Tasks)) \union ({t} \X deps)
    BY <1>8, <2>1, LinksUnchanged, Zenon DEF ManageUpdate
  <2>3. EditTask(t, m, b, deps)
    BY <1>0, <1>8, <2>1, <2>2, Zenon DEF ManageUpdate, EditTask
  <2> QED BY <2>3, Zenon DEF Handler
<1> QED BY <1>1, <1>2, <1>3, <1>4, <1>5, <1>6, <1>7, <1>8, Zenon
        DEF ManageTask, ManageAssign, ManageUnassign

LEMMA WorkToolsAreHandlers ==
    ASSUME NEW t \in Tasks, WorkTools(t)
    PROVE  Handler
<1>1. ASSUME NEW a \in Agents, ClaimAndStart(t, a)
      PROVE  Handler
  <2>1. Claim(t, a)
    BY <1>1, Zenon DEF ClaimAndStart, Claim
  <2> QED BY <2>1, Zenon DEF Handler, AgentNext
<1>2. CASE ReportProgress(t)
  BY <1>2, Zenon DEF ReportProgress, Heartbeat, Handler, AgentNext
<1>3. CASE SubmitWork(t)
  BY <1>3, Zenon DEF SubmitWork, Complete, Handler, AgentNext
<1>4. ASSUME NEW reviewer \in Reviewers, ReviewTask(t, reviewer)
      PROVE  Handler
  BY <1>4, Zenon DEF ReviewTask, Handler, PeopleNext
<1> QED BY <1>1, <1>2, <1>3, <1>4, Zenon DEF WorkTools

LEMMA ManageMilestoneIsHandlers ==
    ASSUME ToolOptions \subseteq Optional, NEW m \in Milestones, ManageMilestone(m)
    PROVE  Handler
<1>0. {"complete_milestone", "delete", "mcp"} \subseteq Optional
  BY Zenon DEF ToolOptions
<1>1. CASE MilestoneTransition(m, "pending", "active")
  BY <1>0, <1>1, Zenon DEF MilestoneTransition, McpActivateMilestone, Handler
<1>2. CASE MilestoneTransition(m, "active", "completed")
  BY <1>0, <1>2, Zenon DEF MilestoneTransition, CompleteMilestone, Handler
<1>3. CASE EndMilestone(m)
  BY <1>0, <1>3, Zenon DEF EndMilestone, CompleteMilestone, Handler
<1>4. CASE RemoveMilestone(m)
  BY <1>0, <1>4, Zenon DEF RemoveMilestone, DeleteMilestone, Handler
<1> QED BY <1>1, <1>2, <1>3, <1>4, Zenon DEF ManageMilestone

LEMMA ToolStep ==
    ASSUME TypeOK, ToolOptions \subseteq Optional, ToolNext
    PROVE  Handler
BY TaskToolsAreHandlers, ManageTaskIsHandlers, WorkToolsAreHandlers,
   ManageMilestoneIsHandlers, Zenon DEF ToolNext

LEMMA HandlerStep ==
    ASSUME Handler
    PROVE  Next
BY Zenon DEF Handler, Next, AdminNext, MilestoneNext

(***************************************************************************)
(* With the tools in use the state is still well typed.                    *)
(***************************************************************************)
LEMMA ToolsKeepTypes ==
    ASSUME ToolOptions \subseteq Optional
    PROVE  ToolSpec => []TypeOK
<1>1. Init => TypeOK
  BY InitType
<1>2. TypeOK /\ [Next \/ ToolNext]_vars => TypeOK'
  <2> SUFFICES ASSUME TypeOK, [Next \/ ToolNext]_vars PROVE TypeOK'
    OBVIOUS
  <2>1. [Next]_vars
    BY ToolStep, HandlerStep, Zenon
  <2> QED BY <2>1, NextType
<1> QED BY <1>1, <1>2, PTL DEF ToolSpec

(***************************************************************************)
(* No tool is a way around a check of the handlers.                        *)
(***************************************************************************)
THEOREM ToolsDoWhatHandlersDo ==
    ASSUME ToolOptions \subseteq Optional
    PROVE  ToolSpec => ToolsAreHandlers
<1>1. TypeOK /\ [Next \/ ToolNext]_vars => [ToolNext => Handler]_vars
  BY ToolStep, Zenon
<1> QED BY <1>1, ToolsKeepTypes, PTL DEF ToolSpec, ToolsAreHandlers

(***************************************************************************)
(* What people and agents do through the tools is a behaviour of the       *)
(* handlers, so that every theorem about Spec speaks of the tools as well. *)
(***************************************************************************)
THEOREM ToolsImplementLifecycle ==
    ASSUME ToolOptions \subseteq Optional
    PROVE  ToolSpec => Spec
<1>1. TypeOK /\ [Next \/ ToolNext]_vars => [Next]_vars
  BY ToolStep, HandlerStep, Zenon
<1> QED BY <1>1, ToolsKeepTypes, PTL DEF ToolSpec, Spec
=============================================================================
