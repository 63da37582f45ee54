------------------------------ MODULE Workboard ------------------------------
(* What holds the tasks: projects, workplans, milestones and links, created, *)
(* moved and deleted by the REST views, the agent tools and the importers.   *)
(* A task names its project, its workplan and its milestone separately; the  *)
(* foreign keys cascade along all of them but the project, which is          *)
(* protected.  A link names its tasks as plain text and outlives them.       *)
EXTENDS FiniteSets, Functions

CONSTANTS ProjectIds, WorkplanIds, MilestoneIds, TaskIds

Nothing == "nothing"

ASSUME BoardConstants ==
    /\ WorkplanIds \cap TaskIds = {}
    /\ Nothing \notin ProjectIds \cup WorkplanIds \cup MilestoneIds

VARIABLES projects,    \* the projects there are
          workplans,   \* of each workplan: its project and its status
          milestones,  \* of each milestone: its workplan
          tasks,       \* of each task: project, workplan and milestone
          links,       \* between tasks, with the project they were filed under
          used,        \* ids given so far: none is given twice
          planning,    \* what each of the two clients that call twice is filling
          loose        \* moved workplans, and tasks moved along or last placed by a path
                       \* that compares no parents

boardVars == <<projects, workplans, milestones, tasks, links, used, planning, loose>>
Statuses == {"active", "completed", "archived"}
Fresh(S) == S \ used
With(f, k, v) == [x \in DOMAIN f \cup {k} |-> IF x = k THEN v ELSE f[x]]
Workplan(p) == [project |-> p, status |-> "active"]
Task(p, w, m) == [project |-> p, workplan |-> w, milestone |-> m]
NoPlan == Task(Nothing, Nothing, Nothing)

\* Clients that commit or read a workplan in one call and fill it in a later one.
Planners == {"vtf_plan_work", "import_cmd"}

BoardInit ==
    /\ projects = {} /\ workplans = <<>> /\ milestones = <<>> /\ tasks = <<>>
    /\ links = {} /\ used = {} /\ loose = {}
    /\ planning = [c \in Planners |-> NoPlan]

(* The deletion of a project, of workplans or of milestones takes the rows   *)
(* along whose foreign keys cascade; links stay.                             *)
Delete(P, W, M) ==
    LET N == M \cup {m \in DOMAIN milestones : milestones[m] \in W}
        kept == {t \in DOMAIN tasks : tasks[t].workplan \notin W /\ tasks[t].milestone \notin N}
    IN  /\ projects' = projects \ P
        /\ workplans' = Restrict(workplans, DOMAIN workplans \ W)
        /\ milestones' = Restrict(milestones, DOMAIN milestones \ N)
        /\ tasks' = Restrict(tasks, kept)
        /\ UNCHANGED <<links, used, planning, loose>>
-----------------------------------------------------------------------------
CreateProject(p) ==
    /\ p \in Fresh(ProjectIds)
    /\ projects' = projects \cup {p} /\ used' = used \cup {p}
    /\ UNCHANGED <<workplans, milestones, tasks, links, planning, loose>>

(* Rows that refer to the project by a protected key. *)
Protected(p) ==
    \/ \E t \in DOMAIN tasks : tasks[t].project = p
    \/ \E l \in links : l.project = p

DeleteProject(p) ==
    /\ p \in projects /\ ~Protected(p)
    /\ Delete({p}, {w \in DOMAIN workplans : workplans[w].project = p}, {})

(* Here and below the view and the tool of one operation are one action. *)
CreateWorkplan(w, p) ==
    /\ w \in Fresh(WorkplanIds) /\ p \in projects
    /\ workplans' = With(workplans, w, Workplan(p)) /\ used' = used \cup {w}
    /\ UNCHANGED <<projects, milestones, tasks, links, planning, loose>>

SetStatus(w, s) ==
    /\ workplans' = [workplans EXCEPT ![w].status = s]
    /\ UNCHANGED <<projects, milestones, tasks, links, used, planning, loose>>

ArchiveWorkplan(w) == w \in DOMAIN workplans /\ workplans[w].status # "archived" /\ SetStatus(w, "archived")
CompleteWorkplan(w) == w \in DOMAIN workplans /\ workplans[w].status = "active" /\ SetStatus(w, "completed")

(* The tools set a status whatever it was, and PATCH writes any. *)
ToolSetStatus(w) == w \in DOMAIN workplans /\ \E s \in Statuses : SetStatus(w, s)

(* PATCH of a workplan's project, of a milestone's workplan: the tasks are   *)
(* not looked at.                                                            *)
MoveWorkplan(w, p) ==
    /\ w \in DOMAIN workplans /\ p \in projects
    /\ workplans' = [workplans EXCEPT ![w].project = p]
    /\ loose' = loose \cup {w} \cup {t \in DOMAIN tasks : tasks[t].workplan = w}
    /\ UNCHANGED <<projects, milestones, tasks, links, used, planning>>

MoveMilestone(m, w) ==
    /\ m \in DOMAIN milestones /\ w \in DOMAIN workplans
    /\ milestones' = [milestones EXCEPT ![m] = w]
    /\ loose' = loose \cup {t \in DOMAIN tasks : tasks[t].milestone = m}
    /\ UNCHANGED <<projects, workplans, tasks, links, used, planning>>

DeleteWorkplan(w) == w \in DOMAIN workplans /\ Delete({}, {w}, {})

CreateMilestone(m, w) ==
    /\ m \in Fresh(MilestoneIds) /\ w \in DOMAIN workplans
    /\ milestones' = With(milestones, m, w) /\ used' = used \cup {m}
    /\ UNCHANGED <<projects, workplans, tasks, links, planning, loose>>

(* The tasks go with it; the docstring of the tool says that they stay in    *)
(* the workplan.                                                             *)
DeleteMilestone(m) == m \in DOMAIN milestones /\ Delete({}, {}, {m})
-----------------------------------------------------------------------------
Parents ==
    [project : projects, workplan : DOMAIN workplans \cup {Nothing},
     milestone : DOMAIN milestones \cup {Nothing}]

(* Without the comparison of the workplan's project. *)
ValidWithin(x) ==
    x.milestone # Nothing => x.workplan # Nothing /\ milestones[x.milestone] = x.workplan

(* TaskSerializer.validate *)
Valid(x) ==
    /\ x.milestone # Nothing => x.workplan # Nothing /\ milestones[x.milestone] = x.workplan
    /\ x.workplan # Nothing => workplans[x.workplan].project = x.project

Put(t, x) ==
    /\ tasks' = With(tasks, t, x) /\ used' = used \cup {t}
    /\ UNCHANGED <<projects, workplans, milestones, links, planning>>

CreateTask(t, x) == t \in Fresh(TaskIds) /\ Valid(x) /\ Put(t, x) /\ UNCHANGED loose
PatchTask(t, x) == t \in DOMAIN tasks /\ Valid(x) /\ Put(t, x) /\ loose' = loose \ {t}

(* vtf_create_task and vtf_update_task take whatever parents exist. *)
ToolPutTask(t, x) ==
    /\ \/ t \in Fresh(TaskIds)
       \/ t \in DOMAIN tasks /\ x.project = tasks[t].project
    /\ Put(t, x) /\ loose' = loose \cup {t}

(* vtf_manage_task: a milestone brings its workplan along, and one that is   *)
(* not the workplan's is dropped; the project is compared with neither.      *)
ManageTask(t, x) ==
    /\ \/ t \in Fresh(TaskIds)
       \/ t \in DOMAIN tasks /\ x.project = tasks[t].project
    /\ x.milestone # Nothing => milestones[x.milestone] = x.workplan
    /\ Put(t, x) /\ loose' = loose \cup {t}

(* The links of the task stay. *)
DeleteTask(t) ==
    /\ t \in DOMAIN tasks
    /\ tasks' = Restrict(tasks, DOMAIN tasks \ {t})
    /\ UNCHANGED <<projects, workplans, milestones, links, used, planning, loose>>

Link(t, u) ==
    /\ t \in DOMAIN tasks
    /\ links' = links \cup {[from |-> t, to |-> u, project |-> tasks[t].project]}
    /\ UNCHANGED <<projects, workplans, milestones, tasks, used, planning, loose>>

Unlink(l) ==
    /\ l \in links
    /\ links' = links \ {l}
    /\ UNCHANGED <<projects, workplans, milestones, tasks, used, planning, loose>>

(* BulkImportView asks for a project and a workplan, new or there. *)
Importable(p, w) ==
    p \in projects \cup Fresh(ProjectIds) /\ w \in DOMAIN workplans \cup Fresh(WorkplanIds)

(* perform_bulk_import, in one transaction: a milestone or the backlog, any  *)
(* tasks, and links that are filed under no project.  A reference that does  *)
(* not resolve leaves nothing.                                               *)
perform_bulk_import(p, w, m, T) ==
    /\ projects' = projects \cup {p}
    /\ workplans' = IF w \in used THEN workplans ELSE With(workplans, w, Workplan(p))
    /\ \/ m = Nothing /\ UNCHANGED milestones
       \/ m \in Fresh(MilestoneIds) /\ milestones' = With(milestones, m, w)
       \/ m \in DOMAIN milestones /\ milestones[m] = w /\ UNCHANGED milestones
    /\ tasks' = [t \in DOMAIN tasks \cup T |-> IF t \in T THEN Task(p, w, m) ELSE tasks[t]]
    /\ links' \in {links} \cup
          {links \cup {[from |-> t, to |-> u, project |-> Nothing]} : t, u \in T}
    /\ used' = used \cup T \cup ({p, w, m} \ {Nothing})

BulkImport(p, w, m, T) ==
    /\ Importable(p, w) /\ T \subseteq Fresh(TaskIds)
    /\ perform_bulk_import(p, w, m, T)
    /\ loose' = IF w \in used THEN loose \cup T ELSE loose
    /\ UNCHANGED planning

Plan(c, x) == planning' = [planning EXCEPT ![c] = x]

(* vtf import, told a workplan and no project, looks up the project ...      *)
InferProject(w) ==
    /\ planning["import_cmd"] = NoPlan /\ w \in DOMAIN workplans
    /\ Plan("import_cmd", Task(workplans[w].project, w, Nothing))
    /\ UNCHANGED <<projects, workplans, milestones, tasks, links, used, loose>>

(* ... and sends both with the milestone, the tasks and their dependencies   *)
(* it has read from a directory.  Given a project, or when the look-up       *)
(* fails, it is a caller of BulkImport.                                      *)
SendImport(m, T) ==
    LET x == planning["import_cmd"] IN
    /\ x # NoPlan /\ T # {} /\ T \subseteq Fresh(TaskIds) /\ m # Nothing
    /\ x.project \in projects /\ x.workplan \in DOMAIN workplans
    /\ perform_bulk_import(x.project, x.workplan, m, T)
    /\ loose' = IF x.workplan \in loose THEN loose \cup T ELSE loose
    /\ Plan("import_cmd", NoPlan)

(* vtf_plan_work commits the workplan, then task after task. *)
BeginPlan(w, p) ==
    /\ planning["vtf_plan_work"] = NoPlan /\ w \in Fresh(WorkplanIds) /\ p \in projects
    /\ workplans' = With(workplans, w, Workplan(p)) /\ used' = used \cup {w}
    /\ Plan("vtf_plan_work", Task(p, w, Nothing))
    /\ UNCHANGED <<projects, milestones, tasks, links, loose>>

PlanTask(t) ==
    LET x == planning["vtf_plan_work"] IN
    /\ x # NoPlan /\ t \in Fresh(TaskIds)
    /\ x.project \in projects /\ x.workplan \in DOMAIN workplans
    /\ tasks' = With(tasks, t, x) /\ used' = used \cup {t}
    /\ loose' = IF x.workplan \in loose THEN loose \cup {t} ELSE loose
    /\ UNCHANGED <<projects, workplans, milestones, links, planning>>

(* Either stops where a parent has gone, or the call dies. *)
EndPlan(c) ==
    /\ planning[c] # NoPlan /\ Plan(c, NoPlan)
    /\ UNCHANGED <<projects, workplans, milestones, tasks, links, used, loose>>
-----------------------------------------------------------------------------
BoardNext ==
    \/ \E c \in Planners : EndPlan(c)
    \/ \E m \in MilestoneIds, T \in SUBSET TaskIds : SendImport(m, T)
    \/ \E p \in ProjectIds :
        \/ CreateProject(p) \/ DeleteProject(p)
        \/ \E w \in WorkplanIds :
            CreateWorkplan(w, p) \/ MoveWorkplan(w, p) \/ BeginPlan(w, p)
        \/ \E w \in WorkplanIds, m \in MilestoneIds \cup {Nothing}, T \in SUBSET TaskIds :
            BulkImport(p, w, m, T)
    \/ \E w \in WorkplanIds :
        \/ ArchiveWorkplan(w) \/ CompleteWorkplan(w) \/ ToolSetStatus(w) \/ DeleteWorkplan(w)
        \/ InferProject(w)
        \/ \E m \in MilestoneIds : CreateMilestone(m, w) \/ MoveMilestone(m, w)
    \/ \E m \in MilestoneIds : DeleteMilestone(m)
    \/ \E t \in TaskIds :
        \/ DeleteTask(t) \/ PlanTask(t)
        \/ \E x \in Parents :
            CreateTask(t, x) \/ PatchTask(t, x) \/ ToolPutTask(t, x) \/ ManageTask(t, x)
        \/ \E u \in TaskIds : Link(t, u)
    \/ \E l \in links : Unlink(l)

BoardSpec == BoardInit /\ [][BoardNext]_boardVars
-----------------------------------------------------------------------------
(* The parents of a task agree, whatever was created, moved and deleted      *)
(* around it, unless a path that compares none of them had the last word.    *)
ParentsAgree ==
    \A t \in DOMAIN tasks \ loose :
        LET w == tasks[t].workplan  m == tasks[t].milestone IN
        /\ w # Nothing => w \in DOMAIN workplans /\ workplans[w].project = tasks[t].project
        /\ m # Nothing => m \in DOMAIN milestones /\ milestones[m] = w

(* When a project is deleted no task of another goes with it, but for those. *)
(* The refusal looks at the tasks' own project, the cascade runs along their *)
(* workplans and milestones.                                                 *)
ProjectDeletionKeepsTasks ==
    [][projects' \subseteq projects /\ projects' # projects
         => DOMAIN tasks \ loose \subseteq DOMAIN tasks']_boardVars
=============================================================================
