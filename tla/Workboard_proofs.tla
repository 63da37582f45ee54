-------------------------- MODULE Workboard_proofs --------------------------
(* The parents of a task agree, and the deletion of a project takes no task  *)
(* of another along: for any projects, workplans, milestones and tasks.      *)
EXTENDS Workboard, TLAPS

TaskRows == [project : ProjectIds, workplan : WorkplanIds \cup {Nothing},
             milestone : MilestoneIds \cup {Nothing}]
WorkplanRows == [project : ProjectIds, status : Statuses]

BoardType ==
    /\ projects \subseteq ProjectIds
    /\ DOMAIN workplans \subseteq WorkplanIds \cap used
    /\ workplans \in [DOMAIN workplans -> WorkplanRows]
    /\ DOMAIN milestones \subseteq MilestoneIds \cap used
    /\ milestones \in [DOMAIN milestones -> WorkplanIds]
    /\ DOMAIN tasks \subseteq TaskIds \cap used
    /\ tasks \in [DOMAIN tasks -> TaskRows]
    /\ planning \in [Planners -> TaskRows \cup {NoPlan}]

(* What vtf_plan_work and vtf import are about to write agrees as well.      *)
PlanAgrees ==
    \A c \in Planners : LET x == planning[c] IN
        x # NoPlan =>
            /\ x.workplan \in WorkplanIds \cap used /\ x.milestone = Nothing
            /\ x.workplan \in DOMAIN workplans \ loose
                 => workplans[x.workplan].project = x.project

BoardInv == BoardType /\ ParentsAgree /\ PlanAgrees

LEMMA InitBoard == BoardInit => BoardInv
  BY DEF BoardInit, BoardInv, BoardType, ParentsAgree, PlanAgrees, WorkplanRows, TaskRows
-----------------------------------------------------------------------------
(* What With, Restrict and EXCEPT leave of a table.                          *)
LEMMA WithRow ==
  ASSUME NEW f, NEW R, f \in [DOMAIN f -> R], NEW k, NEW v \in R
  PROVE  /\ DOMAIN With(f, k, v) = DOMAIN f \cup {k}
         /\ With(f, k, v) \in [DOMAIN f \cup {k} -> R]
         /\ With(f, k, v)[k] = v
         /\ \A x \in DOMAIN f : x # k => With(f, k, v)[x] = f[x]
  BY DEF With

LEMMA RestrictRows ==
  ASSUME NEW f, NEW R, f \in [DOMAIN f -> R], NEW S \in SUBSET DOMAIN f
  PROVE  /\ DOMAIN Restrict(f, S) = S
         /\ Restrict(f, S) \in [S -> R]
         /\ \A x \in S : Restrict(f, S)[x] = f[x]
  BY DEF Restrict

LEMMA RowsAreRows ==
  /\ \A p \in ProjectIds : Workplan(p) \in WorkplanRows /\ Workplan(p).project = p
  /\ \A p \in ProjectIds, w \in WorkplanIds \cup {Nothing}, m \in MilestoneIds \cup {Nothing} :
        Task(p, w, m) \in TaskRows
  BY DEF Workplan, Task, WorkplanRows, TaskRows, Statuses

LEMMA PlansAreParents == BoardType => Parents \subseteq TaskRows
  BY DEF BoardType, Parents, TaskRows
-----------------------------------------------------------------------------
LEMMA KeepDelete ==
  ASSUME BoardInv, NEW P, NEW W, NEW D, Delete(P, W, D)
  PROVE  BoardInv'
  <1>. DEFINE N == D \cup {m \in DOMAIN milestones : milestones[m] \in W}
              kept == {t \in DOMAIN tasks : tasks[t].workplan \notin W /\ tasks[t].milestone \notin N}
  <1>1. /\ DOMAIN workplans' = DOMAIN workplans \ W
        /\ workplans' \in [DOMAIN workplans' -> WorkplanRows]
        /\ \A w \in DOMAIN workplans' : workplans'[w] = workplans[w]
    <2>1. workplans' = Restrict(workplans, DOMAIN workplans \ W)
      BY DEF Delete
    <2>2. workplans \in [DOMAIN workplans -> WorkplanRows]
      BY DEF BoardInv, BoardType
    <2>. QED  BY <2>1, <2>2 DEF Restrict
  <1>2. /\ DOMAIN milestones' = DOMAIN milestones \ N
        /\ milestones' \in [DOMAIN milestones' -> WorkplanIds]
        /\ \A m \in DOMAIN milestones' : milestones'[m] = milestones[m]
    <2>1. milestones' = Restrict(milestones, DOMAIN milestones \ N)
      BY DEF Delete
    <2>2. milestones \in [DOMAIN milestones -> WorkplanIds]
      BY DEF BoardInv, BoardType
    <2>. HIDE DEF N
    <2>. QED  BY <2>1, <2>2 DEF Restrict
  <1>3. /\ DOMAIN tasks' = kept
        /\ tasks' \in [DOMAIN tasks' -> TaskRows]
        /\ \A t \in DOMAIN tasks' : tasks'[t] = tasks[t]
    <2>1. tasks' = Restrict(tasks, kept) /\ kept \subseteq DOMAIN tasks
      BY DEF Delete
    <2>2. tasks \in [DOMAIN tasks -> TaskRows]
      BY DEF BoardInv, BoardType
    <2>. HIDE DEF kept
    <2>. QED  BY <2>1, <2>2 DEF Restrict
  <1>4. projects' \subseteq projects /\ UNCHANGED <<links, used, planning, loose>>
    BY DEF Delete
  <1>5. BoardType'
    BY <1>1, <1>2, <1>3, <1>4 DEF BoardInv, BoardType
  <1>6. ParentsAgree'
    <2>. SUFFICES ASSUME NEW t \in DOMAIN tasks' \ loose'
                  PROVE  /\ tasks'[t].workplan # Nothing =>
                              /\ tasks'[t].workplan \in DOMAIN workplans'
                              /\ workplans'[tasks'[t].workplan].project = tasks'[t].project
                         /\ tasks'[t].milestone # Nothing =>
                              /\ tasks'[t].milestone \in DOMAIN milestones'
                              /\ milestones'[tasks'[t].milestone] = tasks'[t].workplan
      BY DEF ParentsAgree
    <2>1. /\ t \in DOMAIN tasks \ loose /\ tasks'[t] = tasks[t]
          /\ tasks[t].workplan \notin W /\ tasks[t].milestone \notin N
      BY <1>3, <1>4
    <2>2. /\ tasks[t].workplan # Nothing =>
               /\ tasks[t].workplan \in DOMAIN workplans
               /\ workplans[tasks[t].workplan].project = tasks[t].project
          /\ tasks[t].milestone # Nothing =>
               /\ tasks[t].milestone \in DOMAIN milestones
               /\ milestones[tasks[t].milestone] = tasks[t].workplan
      BY <2>1 DEF BoardInv, ParentsAgree
    <2>. HIDE DEF N
    <2>. QED  BY <1>1, <1>2, <2>1, <2>2
  <1>7. PlanAgrees'
    BY <1>1, <1>4 DEF BoardInv, PlanAgrees
  <1>. QED  BY <1>5, <1>6, <1>7 DEF BoardInv

(* What one task's share of ParentsAgree says.                               *)
Agrees(t) ==
    /\ tasks[t].workplan # Nothing =>
         /\ tasks[t].workplan \in DOMAIN workplans
         /\ workplans[tasks[t].workplan].project = tasks[t].project
    /\ tasks[t].milestone # Nothing =>
         /\ tasks[t].milestone \in DOMAIN milestones
         /\ milestones[tasks[t].milestone] = tasks[t].workplan

(* Tables that only grow, and tasks that come or change: each of them agrees *)
(* with its parents or is loose.                                             *)
LEMMA KeepGrowth ==
  ASSUME ParentsAgree,
         \A w \in DOMAIN workplans : w \in DOMAIN workplans' /\ workplans'[w] = workplans[w],
         \A m \in DOMAIN milestones : m \in DOMAIN milestones' /\ milestones'[m] = milestones[m],
         NEW T, DOMAIN tasks' \subseteq DOMAIN tasks \cup T,
         \A t \in DOMAIN tasks \ T : tasks'[t] = tasks[t],
         loose \ T \subseteq loose',
         \A t \in T : (t \in loose' \/ Agrees(t)')
  PROVE  ParentsAgree'
  <1>. SUFFICES ASSUME NEW t \in DOMAIN tasks' \ loose' PROVE Agrees(t)'
    BY DEF ParentsAgree, Agrees
  <1>1. CASE t \in T
    BY <1>1
  <1>2. CASE t \notin T
    <2>1. t \in DOMAIN tasks \ loose /\ tasks'[t] = tasks[t]
      BY <1>2
    <2>2. Agrees(t)
      BY <2>1 DEF ParentsAgree, Agrees
    <2>. QED  BY <2>1, <2>2 DEF Agrees
  <1>. QED  BY <1>1, <1>2

(* The plans under way are as good as before when workplans only come.       *)
LEMMA KeepPlan ==
  ASSUME PlanAgrees, \A c \in Planners : planning'[c] \in {planning[c], NoPlan},
         used \subseteq used',
         NEW T \in SUBSET TaskIds, loose \ T \subseteq loose',
         \A w \in DOMAIN workplans' :
            w \in used => w \in DOMAIN workplans /\ workplans'[w].project = workplans[w].project
  PROVE  PlanAgrees'
  <1>1. \A w \in WorkplanIds : w \in loose => w \in loose'
    BY BoardConstants
  <1>. QED  BY <1>1 DEF PlanAgrees

LEMMA NewWorkplan ==
  ASSUME BoardType, NEW p \in ProjectIds, NEW w \in Fresh(WorkplanIds),
         workplans' = With(workplans, w, Workplan(p))
  PROVE  /\ w \in WorkplanIds /\ w \notin used
         /\ DOMAIN workplans' = DOMAIN workplans \cup {w}
         /\ workplans' \in [DOMAIN workplans' -> WorkplanRows]
         /\ workplans'[w].project = p
         /\ \A v \in DOMAIN workplans : workplans'[v] = workplans[v]
  <1>1. w \in WorkplanIds /\ w \notin used /\ w \notin DOMAIN workplans
    BY DEF BoardType, Fresh
  <1>2. Workplan(p) \in WorkplanRows /\ Workplan(p).project = p
    BY RowsAreRows
  <1>3. workplans \in [DOMAIN workplans -> WorkplanRows]
    BY DEF BoardType
  <1>. QED  BY <1>1, <1>2, <1>3 DEF With

LEMMA NewMilestone ==
  ASSUME BoardType, NEW m \in Fresh(MilestoneIds), NEW w \in WorkplanIds,
         milestones' = With(milestones, m, w)
  PROVE  /\ m \in MilestoneIds /\ m \notin used
         /\ DOMAIN milestones' = DOMAIN milestones \cup {m}
         /\ milestones' \in [DOMAIN milestones' -> WorkplanIds]
         /\ milestones'[m] = w
         /\ \A n \in DOMAIN milestones : milestones'[n] = milestones[n]
  <1>1. m \in MilestoneIds /\ m \notin used /\ m \notin DOMAIN milestones
    BY DEF BoardType, Fresh
  <1>2. milestones \in [DOMAIN milestones -> WorkplanIds]
    BY DEF BoardType
  <1>. QED  BY <1>1, <1>2 DEF With

LEMMA NewTask ==
  ASSUME BoardType, NEW t \in TaskIds, NEW x \in TaskRows, tasks' = With(tasks, t, x)
  PROVE  /\ DOMAIN tasks' = DOMAIN tasks \cup {t}
         /\ tasks' \in [DOMAIN tasks' -> TaskRows]
         /\ tasks'[t] = x
         /\ \A u \in DOMAIN tasks \ {t} : tasks'[u] = tasks[u]
  <1>1. tasks \in [DOMAIN tasks -> TaskRows]
    BY DEF BoardType
  <1>. QED  BY <1>1 DEF With
-----------------------------------------------------------------------------
LEMMA KeepCreateWorkplan ==
  ASSUME BoardInv, NEW p \in ProjectIds, NEW w \in WorkplanIds, CreateWorkplan(w, p)
  PROVE  BoardInv'
  <1>1. /\ w \in Fresh(WorkplanIds) /\ workplans' = With(workplans, w, Workplan(p))
        /\ used' = used \cup {w}
        /\ UNCHANGED <<projects, milestones, tasks, links, planning, loose>>
    BY DEF CreateWorkplan
  <1>2. BoardType /\ ParentsAgree /\ PlanAgrees
    BY DEF BoardInv
  <1>3. /\ w \in WorkplanIds /\ w \notin used
        /\ DOMAIN workplans' = DOMAIN workplans \cup {w}
        /\ workplans' \in [DOMAIN workplans' -> WorkplanRows]
        /\ \A v \in DOMAIN workplans : workplans'[v] = workplans[v]
    BY <1>1, <1>2, NewWorkplan
  <1>4. BoardType'
    BY <1>1, <1>2, <1>3 DEF BoardType
  <1>5. ParentsAgree'
    BY <1>1, <1>2, <1>3, KeepGrowth
  <1>6. PlanAgrees'
    BY <1>1, <1>2, <1>3, KeepPlan
  <1>. QED  BY <1>4, <1>5, <1>6 DEF BoardInv

LEMMA KeepBeginPlan ==
  ASSUME BoardInv, NEW p \in ProjectIds, NEW w \in WorkplanIds, BeginPlan(w, p)
  PROVE  BoardInv'
  <1>1. /\ w \in Fresh(WorkplanIds) /\ workplans' = With(workplans, w, Workplan(p))
        /\ used' = used \cup {w}
        /\ planning' = [planning EXCEPT !["vtf_plan_work"] = Task(p, w, Nothing)]
        /\ UNCHANGED <<projects, milestones, tasks, links, loose>>
    BY DEF BeginPlan, Plan
  <1>2. BoardType /\ ParentsAgree /\ PlanAgrees
    BY DEF BoardInv
  <1>3. /\ w \in WorkplanIds /\ w \notin used
        /\ DOMAIN workplans' = DOMAIN workplans \cup {w}
        /\ workplans' \in [DOMAIN workplans' -> WorkplanRows]
        /\ workplans'[w].project = p
        /\ \A v \in DOMAIN workplans : workplans'[v] = workplans[v]
    BY <1>1, <1>2, NewWorkplan
  <1>4. Task(p, w, Nothing) \in TaskRows
    BY RowsAreRows
  <1>5. BoardType'
    BY <1>1, <1>2, <1>3, <1>4 DEF BoardType
  <1>6. ParentsAgree'
    BY <1>1, <1>2, <1>3, KeepGrowth
  <1>7. PlanAgrees'
    BY <1>1, <1>2, <1>3 DEF PlanAgrees, BoardType, Task
  <1>. QED  BY <1>5, <1>6, <1>7 DEF BoardInv

LEMMA KeepCreateMilestone ==
  ASSUME BoardInv, NEW m \in MilestoneIds, NEW w \in WorkplanIds, CreateMilestone(m, w)
  PROVE  BoardInv'
  <1>1. /\ m \in Fresh(MilestoneIds) /\ milestones' = With(milestones, m, w)
        /\ used' = used \cup {m}
        /\ UNCHANGED <<projects, workplans, tasks, links, planning, loose>>
    BY DEF CreateMilestone
  <1>2. BoardType /\ ParentsAgree /\ PlanAgrees
    BY DEF BoardInv
  <1>3. /\ DOMAIN milestones' = DOMAIN milestones \cup {m}
        /\ milestones' \in [DOMAIN milestones' -> WorkplanIds]
        /\ \A n \in DOMAIN milestones : milestones'[n] = milestones[n]
    BY <1>1, <1>2, NewMilestone
  <1>4. BoardType'
    BY <1>1, <1>2, <1>3 DEF BoardType
  <1>5. ParentsAgree'
    BY <1>1, <1>2, <1>3, KeepGrowth
  <1>6. PlanAgrees'
    BY <1>1, <1>2, KeepPlan
  <1>. QED  BY <1>4, <1>5, <1>6 DEF BoardInv

(* The four ways to put a task: two compare its parents, two make it loose.  *)
LEMMA KeepPut ==
  ASSUME BoardInv, NEW t \in TaskIds, NEW x \in Parents, Put(t, x),
         \/ Valid(x) /\ loose \ {t} \subseteq loose'
         \/ loose' = loose \cup {t}
  PROVE  BoardInv'
  <1>1. /\ tasks' = With(tasks, t, x) /\ used' = used \cup {t}
        /\ UNCHANGED <<projects, workplans, milestones, links, planning>>
    BY DEF Put
  <1>2. BoardType /\ ParentsAgree /\ PlanAgrees
    BY DEF BoardInv
  <1>3. x \in TaskRows
    BY <1>2, PlansAreParents
  <1>4. /\ DOMAIN tasks' = DOMAIN tasks \cup {t}
        /\ tasks' \in [DOMAIN tasks' -> TaskRows]
        /\ tasks'[t] = x
        /\ \A u \in DOMAIN tasks \ {t} : tasks'[u] = tasks[u]
    BY <1>1, <1>2, <1>3, NewTask
  <1>5. BoardType'
    BY <1>1, <1>2, <1>4 DEF BoardType
  <1>6. t \in loose' \/ Agrees(t)'
    <2>1. ASSUME Valid(x) PROVE Agrees(t)'
      BY <1>1, <1>4, <2>1 DEF Agrees, Valid, Parents
    <2>. QED  BY <2>1
  <1>7. \A u \in {t} : (u \in loose' \/ Agrees(u)')
    BY <1>6
  <1>8. ParentsAgree'
    BY <1>1, <1>2, <1>4, <1>7, KeepGrowth
  <1>9. PlanAgrees'
    BY <1>1, <1>2, KeepPlan
  <1>. QED  BY <1>5, <1>8, <1>9 DEF BoardInv

LEMMA KeepPlanTask ==
  ASSUME BoardInv, NEW t \in TaskIds, PlanTask(t)
  PROVE  BoardInv'
  <1>. DEFINE x == planning["vtf_plan_work"]
  <1>1. /\ x # NoPlan /\ x.workplan \in DOMAIN workplans
        /\ tasks' = With(tasks, t, x) /\ used' = used \cup {t}
        /\ loose' = IF x.workplan \in loose THEN loose \cup {t} ELSE loose
        /\ UNCHANGED <<projects, workplans, milestones, links, planning>>
    BY DEF PlanTask
  <1>2. BoardType /\ ParentsAgree /\ PlanAgrees
    BY DEF BoardInv
  <1>3. x \in TaskRows
    BY <1>1, <1>2 DEF BoardType, Planners
  <1>4. /\ DOMAIN tasks' = DOMAIN tasks \cup {t}
        /\ tasks' \in [DOMAIN tasks' -> TaskRows]
        /\ tasks'[t] = x
        /\ \A u \in DOMAIN tasks \ {t} : tasks'[u] = tasks[u]
    BY <1>1, <1>2, <1>3, NewTask
  <1>5. BoardType'
    BY <1>1, <1>2, <1>4 DEF BoardType
  <1>6. t \in loose' \/ Agrees(t)'
    BY <1>1, <1>2, <1>4 DEF Agrees, PlanAgrees, Planners
  <1>7. \A u \in {t} : (u \in loose' \/ Agrees(u)')
    BY <1>6
  <1>8. ParentsAgree'
    BY <1>1, <1>2, <1>4, <1>7, KeepGrowth
  <1>9. PlanAgrees'
    BY <1>1, <1>2, KeepPlan
  <1>. QED  BY <1>5, <1>8, <1>9 DEF BoardInv

LEMMA KeepDeleteTask ==
  ASSUME BoardInv, NEW t \in TaskIds, DeleteTask(t)
  PROVE  BoardInv'
  <1>1. /\ tasks' = Restrict(tasks, DOMAIN tasks \ {t})
        /\ UNCHANGED <<projects, workplans, milestones, links, used, planning, loose>>
    BY DEF DeleteTask
  <1>2. tasks \in [DOMAIN tasks -> TaskRows]
    BY DEF BoardInv, BoardType
  <1>3. /\ DOMAIN tasks' = DOMAIN tasks \ {t}
        /\ tasks' \in [DOMAIN tasks' -> TaskRows]
        /\ \A u \in DOMAIN tasks' : tasks'[u] = tasks[u]
    BY <1>1, <1>2 DEF Restrict
  <1>4. BoardType'
    BY <1>1, <1>3 DEF BoardInv, BoardType
  <1>5. ParentsAgree'
    BY <1>1, <1>3 DEF BoardInv, ParentsAgree
  <1>6. PlanAgrees'
    BY <1>1 DEF BoardInv, PlanAgrees
  <1>. QED  BY <1>4, <1>5, <1>6 DEF BoardInv

LEMMA KeepSetStatus ==
  ASSUME BoardInv, NEW w \in DOMAIN workplans, NEW s \in Statuses, SetStatus(w, s)
  PROVE  BoardInv'
  <1>1. /\ workplans' = [workplans EXCEPT ![w].status = s]
        /\ UNCHANGED <<projects, milestones, tasks, links, used, planning, loose>>
    BY DEF SetStatus
  <1>2. workplans \in [DOMAIN workplans -> WorkplanRows]
    BY DEF BoardInv, BoardType
  <1>3. [workplans[w] EXCEPT !.status = s] \in WorkplanRows
    BY <1>2 DEF WorkplanRows
  <1>4. /\ DOMAIN workplans' = DOMAIN workplans
        /\ workplans' \in [DOMAIN workplans' -> WorkplanRows]
    BY <1>1, <1>2, <1>3
  <1>5. \A v \in DOMAIN workplans : workplans'[v].project = workplans[v].project
    BY <1>1, <1>2 DEF WorkplanRows
  <1>6. BoardType'
    BY <1>1, <1>4 DEF BoardInv, BoardType
  <1>7. ParentsAgree'
    BY <1>1, <1>4, <1>5 DEF BoardInv, ParentsAgree
  <1>8. PlanAgrees'
    BY <1>1, <1>4, <1>5 DEF BoardInv, PlanAgrees
  <1>. QED  BY <1>6, <1>7, <1>8 DEF BoardInv

LEMMA KeepMoveWorkplan ==
  ASSUME BoardInv, NEW w \in WorkplanIds, NEW p \in ProjectIds, MoveWorkplan(w, p)
  PROVE  BoardInv'
  <1>1. /\ w \in DOMAIN workplans
        /\ workplans' = [workplans EXCEPT ![w].project = p]
        /\ loose' = loose \cup {w} \cup {t \in DOMAIN tasks : tasks[t].workplan = w}
        /\ UNCHANGED <<projects, milestones, tasks, links, used, planning>>
    BY DEF MoveWorkplan
  <1>2. workplans \in [DOMAIN workplans -> WorkplanRows]
    BY DEF BoardInv, BoardType
  <1>3. [workplans[w] EXCEPT !.project = p] \in WorkplanRows
    BY <1>1, <1>2 DEF WorkplanRows
  <1>4. /\ DOMAIN workplans' = DOMAIN workplans
        /\ workplans' \in [DOMAIN workplans' -> WorkplanRows]
        /\ \A v \in DOMAIN workplans \ {w} : workplans'[v] = workplans[v]
    BY <1>1, <1>2, <1>3
  <1>. QED  BY <1>1, <1>4 DEF BoardInv, BoardType, ParentsAgree, PlanAgrees

LEMMA KeepMoveMilestone ==
  ASSUME BoardInv, NEW m \in MilestoneIds, NEW w \in WorkplanIds, MoveMilestone(m, w)
  PROVE  BoardInv'
  <1>1. /\ m \in DOMAIN milestones
        /\ milestones' = [milestones EXCEPT ![m] = w]
        /\ loose' = loose \cup {t \in DOMAIN tasks : tasks[t].milestone = m}
        /\ UNCHANGED <<projects, workplans, tasks, links, used, planning>>
    BY DEF MoveMilestone
  <1>2. milestones \in [DOMAIN milestones -> WorkplanIds]
    BY DEF BoardInv, BoardType
  <1>3. /\ DOMAIN milestones' = DOMAIN milestones
        /\ milestones' \in [DOMAIN milestones' -> WorkplanIds]
        /\ \A n \in DOMAIN milestones \ {m} : milestones'[n] = milestones[n]
    BY <1>1, <1>2
  <1>. QED  BY <1>1, <1>3 DEF BoardInv, BoardType, ParentsAgree, PlanAgrees

(* What perform_bulk_import leaves, whoever calls it: its tasks agree with   *)
(* their parents when the workplan is new or the project is the workplan's.  *)
LEMMA KeepImport ==
  ASSUME BoardInv, NEW p \in ProjectIds, NEW w \in WorkplanIds, Importable(p, w),
         NEW m \in MilestoneIds \cup {Nothing}, NEW T \in SUBSET TaskIds,
         perform_bulk_import(p, w, m, T),
         \/ w \notin used
         \/ T \subseteq loose'
         \/ w \in DOMAIN workplans /\ workplans[w].project = p,
         loose \subseteq loose',
         planning' \in [Planners -> TaskRows \cup {NoPlan}],
         \A c \in Planners : planning'[c] \in {planning[c], NoPlan}
  PROVE  BoardInv'
  <1>. DEFINE x == Task(p, w, m)
  <1>1. /\ projects' = projects \cup {p}
        /\ workplans' = IF w \in used THEN workplans ELSE With(workplans, w, Workplan(p))
        /\ \/ m = Nothing /\ UNCHANGED milestones
           \/ m \in Fresh(MilestoneIds) /\ milestones' = With(milestones, m, w)
           \/ m \in DOMAIN milestones /\ milestones[m] = w /\ UNCHANGED milestones
        /\ tasks' = [t \in DOMAIN tasks \cup T |-> IF t \in T THEN x ELSE tasks[t]]
        /\ used' = used \cup T \cup ({p, w, m} \ {Nothing})
    BY DEF perform_bulk_import
  <1>2. BoardType /\ ParentsAgree /\ PlanAgrees
    BY DEF BoardInv
  <1>3. x \in TaskRows /\ x.project = p /\ x.workplan = w /\ x.milestone = m
    BY RowsAreRows DEF Task
  <1>4. /\ w \in DOMAIN workplans'
        /\ DOMAIN workplans' \subseteq DOMAIN workplans \cup {w}
        /\ workplans' \in [DOMAIN workplans' -> WorkplanRows]
        /\ w \notin used => workplans'[w].project = p
        /\ \A v \in DOMAIN workplans : v \in DOMAIN workplans' /\ workplans'[v] = workplans[v]
    <2>1. CASE w \in used
      <3>1. w \in DOMAIN workplans
        BY <1>1, <2>1 DEF Importable, Fresh
      <3>2. workplans' = workplans
        BY <1>1, <2>1
      <3>3. workplans \in [DOMAIN workplans -> WorkplanRows]
        BY <1>2 DEF BoardType
      <3>. QED  BY <2>1, <3>1, <3>2, <3>3
    <2>2. CASE w \notin used
      <3>1. w \in Fresh(WorkplanIds) /\ workplans' = With(workplans, w, Workplan(p))
        BY <1>1, <2>2 DEF Fresh
      <3>2. w \in WorkplanIds /\ w \notin used /\ DOMAIN workplans' = DOMAIN workplans \cup {w}
            /\ workplans' \in [DOMAIN workplans' -> WorkplanRows] /\ workplans'[w].project = p
            /\ \A v \in DOMAIN workplans : workplans'[v] = workplans[v]
        BY <1>2, <3>1, NewWorkplan
      <3>. QED  BY <3>2
    <2>. QED  BY <2>1, <2>2
  <1>5. /\ DOMAIN milestones' \subseteq DOMAIN milestones \cup ({m} \ {Nothing})
        /\ milestones' \in [DOMAIN milestones' -> WorkplanIds]
        /\ m # Nothing => m \in DOMAIN milestones' /\ milestones'[m] = w
        /\ \A n \in DOMAIN milestones : n \in DOMAIN milestones' /\ milestones'[n] = milestones[n]
    <2>1. CASE UNCHANGED milestones
      BY <1>1, <1>2, <2>1, BoardConstants, NewMilestone DEF BoardType, Fresh
    <2>2. CASE m \in Fresh(MilestoneIds) /\ milestones' = With(milestones, m, w)
      <3>1. m # Nothing
        BY <2>2, BoardConstants DEF Fresh
      <3>. QED  BY <1>2, <2>2, <3>1, NewMilestone
    <2>. QED  BY <1>1, <2>1, <2>2
  <1>6. /\ DOMAIN tasks' = DOMAIN tasks \cup T
        /\ tasks' \in [DOMAIN tasks' -> TaskRows]
        /\ \A t \in T : tasks'[t] = x
        /\ \A t \in DOMAIN tasks \ T : tasks'[t] = tasks[t]
    <2>1. tasks \in [DOMAIN tasks -> TaskRows]
      BY <1>2 DEF BoardType
    <2>. HIDE DEF x
    <2>. QED  BY <1>1, <1>3, <2>1
  <1>7. BoardType'
    BY <1>1, <1>2, <1>4, <1>5, <1>6, BoardConstants DEF BoardType
  <1>8. ParentsAgree'
    <2>1. \A t \in T : (t \in loose' \/ Agrees(t)')
      BY <1>3, <1>4, <1>5, <1>6 DEF Agrees
    <2>2. loose \ T \subseteq loose'
      OBVIOUS
    <2>. HIDE DEF x
    <2>. QED  BY <1>2, <1>4, <1>5, <1>6, <2>1, <2>2, KeepGrowth
  <1>9. PlanAgrees'
    <2>1. used \subseteq used' /\ loose \ T \subseteq loose'
      BY <1>1
    <2>2. \A v \in DOMAIN workplans' :
            v \in used => v \in DOMAIN workplans /\ workplans'[v].project = workplans[v].project
      BY <1>1, <1>2, <1>4 DEF BoardType, Importable, Fresh
    <2>. QED  BY <1>2, <2>1, <2>2, KeepPlan
  <1>. QED  BY <1>7, <1>8, <1>9 DEF BoardInv

LEMMA KeepBulkImport ==
  ASSUME BoardInv, NEW p \in ProjectIds, NEW w \in WorkplanIds,
         NEW m \in MilestoneIds \cup {Nothing}, NEW T \in SUBSET TaskIds, BulkImport(p, w, m, T)
  PROVE  BoardInv'
  <1>1. /\ Importable(p, w) /\ perform_bulk_import(p, w, m, T)
        /\ loose' = IF w \in used THEN loose \cup T ELSE loose
        /\ UNCHANGED planning
    BY DEF BulkImport
  <1>2. planning \in [Planners -> TaskRows \cup {NoPlan}]
    BY DEF BoardInv, BoardType
  <1>. QED  BY <1>1, <1>2, KeepImport

LEMMA KeepSendImport ==
  ASSUME BoardInv, NEW m \in MilestoneIds, NEW T \in SUBSET TaskIds, SendImport(m, T)
  PROVE  BoardInv'
  <1>. DEFINE x == planning["import_cmd"]
  <1>1. /\ x # NoPlan /\ x.project \in projects /\ x.workplan \in DOMAIN workplans
        /\ perform_bulk_import(x.project, x.workplan, m, T)
        /\ loose' = IF x.workplan \in loose THEN loose \cup T ELSE loose
        /\ planning' = [planning EXCEPT !["import_cmd"] = NoPlan]
    BY DEF SendImport, Plan
  <1>2. planning \in [Planners -> TaskRows \cup {NoPlan}] /\ "import_cmd" \in Planners
    BY DEF BoardInv, BoardType, Planners
  <1>3. /\ x.project \in ProjectIds /\ x.workplan \in WorkplanIds
        /\ Importable(x.project, x.workplan)
    BY <1>1 DEF BoardInv, BoardType, Importable
  <1>4. x.workplan \notin loose => workplans[x.workplan].project = x.project
    BY <1>1, <1>2 DEF BoardInv, PlanAgrees
  <1>5. /\ planning' \in [Planners -> TaskRows \cup {NoPlan}]
        /\ \A c \in Planners : planning'[c] \in {planning[c], NoPlan}
    BY <1>1, <1>2
  <1>. HIDE DEF x
  <1>. QED  BY <1>1, <1>3, <1>4, <1>5, KeepImport

LEMMA KeepInferProject ==
  ASSUME BoardInv, NEW w \in WorkplanIds, InferProject(w)
  PROVE  BoardInv'
  <1>. DEFINE x == Task(workplans[w].project, w, Nothing)
  <1>1. /\ w \in DOMAIN workplans
        /\ planning' = [planning EXCEPT !["import_cmd"] = x]
        /\ UNCHANGED <<projects, workplans, milestones, tasks, links, used, loose>>
    BY DEF InferProject, Plan
  <1>2. /\ workplans[w].project \in ProjectIds
        /\ w \in used
    BY <1>1 DEF BoardInv, BoardType, WorkplanRows
  <1>3. /\ x \in TaskRows /\ x.project = workplans[w].project
        /\ x.workplan = w /\ x.milestone = Nothing
    BY <1>2, RowsAreRows DEF Task
  <1>. HIDE DEF x
  <1>4. /\ planning \in [Planners -> TaskRows \cup {NoPlan}]
        /\ planning' \in [Planners -> TaskRows \cup {NoPlan}]
        /\ \A c \in Planners : planning'[c] \in {planning[c], x}
    BY <1>1, <1>3 DEF BoardInv, BoardType
  <1>5. BoardType' /\ ParentsAgree'
    BY <1>1, <1>4 DEF BoardInv, BoardType, ParentsAgree
  <1>6. PlanAgrees'
    BY <1>1, <1>2, <1>3, <1>4 DEF BoardInv, PlanAgrees
  <1>. QED  BY <1>5, <1>6 DEF BoardInv
-----------------------------------------------------------------------------
LEMMA NextBoard == BoardInv /\ [BoardNext]_boardVars => BoardInv'
  <1>. SUFFICES ASSUME BoardInv, [BoardNext]_boardVars PROVE BoardInv'
    OBVIOUS
  <1>1. ASSUME NEW p \in ProjectIds, CreateProject(p) PROVE BoardInv'
    BY <1>1 DEF CreateProject, BoardInv, BoardType, ParentsAgree, PlanAgrees
  <1>2. ASSUME NEW p \in ProjectIds, DeleteProject(p) PROVE BoardInv'
    BY <1>2, KeepDelete DEF DeleteProject
  <1>3. ASSUME NEW p \in ProjectIds, NEW w \in WorkplanIds,
               CreateWorkplan(w, p) \/ MoveWorkplan(w, p) \/ BeginPlan(w, p)
        PROVE  BoardInv'
    BY <1>3, KeepCreateWorkplan, KeepMoveWorkplan, KeepBeginPlan
  <1>4. ASSUME NEW p \in ProjectIds, NEW w \in WorkplanIds, NEW m \in MilestoneIds \cup {Nothing},
               NEW T \in SUBSET TaskIds, BulkImport(p, w, m, T)
        PROVE  BoardInv'
    BY <1>4, KeepBulkImport
  <1>5. ASSUME NEW w \in WorkplanIds,
               ArchiveWorkplan(w) \/ CompleteWorkplan(w) \/ ToolSetStatus(w)
        PROVE  BoardInv'
    BY <1>5, KeepSetStatus DEF ArchiveWorkplan, CompleteWorkplan, ToolSetStatus, Statuses
  <1>6. ASSUME NEW w \in WorkplanIds, DeleteWorkplan(w) PROVE BoardInv'
    BY <1>6, KeepDelete DEF DeleteWorkplan
  <1>7. ASSUME NEW w \in WorkplanIds, NEW m \in MilestoneIds,
               CreateMilestone(m, w) \/ MoveMilestone(m, w)
        PROVE  BoardInv'
    BY <1>7, KeepCreateMilestone, KeepMoveMilestone
  <1>8. ASSUME NEW m \in MilestoneIds, DeleteMilestone(m) PROVE BoardInv'
    BY <1>8, KeepDelete DEF DeleteMilestone
  <1>9. ASSUME NEW t \in TaskIds, DeleteTask(t) \/ PlanTask(t) PROVE BoardInv'
    BY <1>9, KeepDeleteTask, KeepPlanTask
  <1>10. ASSUME NEW t \in TaskIds, NEW x \in Parents,
                CreateTask(t, x) \/ PatchTask(t, x) \/ ToolPutTask(t, x) \/ ManageTask(t, x)
         PROVE  BoardInv'
    BY <1>10, KeepPut DEF CreateTask, PatchTask, ToolPutTask, ManageTask
  <1>11. ASSUME NEW t \in TaskIds, NEW u \in TaskIds, Link(t, u) PROVE BoardInv'
    BY <1>11 DEF Link, BoardInv, BoardType, ParentsAgree, PlanAgrees
  <1>12. ASSUME NEW l \in links, Unlink(l) PROVE BoardInv'
    BY <1>12 DEF Unlink, BoardInv, BoardType, ParentsAgree, PlanAgrees
  <1>13. ASSUME NEW c \in Planners, EndPlan(c) PROVE BoardInv'
    BY <1>13 DEF EndPlan, Plan, BoardInv, BoardType, ParentsAgree, PlanAgrees
  <1>14. CASE UNCHANGED boardVars
    BY <1>14 DEF boardVars, BoardInv, BoardType, ParentsAgree, PlanAgrees
  <1>15. ASSUME NEW w \in WorkplanIds, InferProject(w) PROVE BoardInv'
    BY <1>15, KeepInferProject
  <1>16. ASSUME NEW m \in MilestoneIds, NEW T \in SUBSET TaskIds, SendImport(m, T) PROVE BoardInv'
    BY <1>16, KeepSendImport
  <1>. QED
    BY <1>1, <1>2, <1>3, <1>4, <1>5, <1>6, <1>7, <1>8, <1>9, <1>10, <1>11, <1>12, <1>13, <1>14,
       <1>15, <1>16
    DEF BoardNext

(* The parents of a task agree, whatever the views, the tools and the        *)
(* importers did, unless a path that compares none of them was the last.     *)
THEOREM ParentsStayAgreed == BoardSpec => []ParentsAgree
  BY InitBoard, NextBoard, PTL DEF BoardSpec, BoardInv

(* Of all steps only DeleteProject takes projects away.                      *)
LEMMA OnlyDeletionRemoves ==
  ASSUME BoardNext, projects' \subseteq projects, projects' # projects
  PROVE  \E p \in ProjectIds : DeleteProject(p)
  <1>1. ASSUME NEW p \in ProjectIds, CreateProject(p) PROVE FALSE
    BY <1>1 DEF CreateProject
  <1>2. ASSUME NEW p \in ProjectIds, NEW w, NEW m, NEW T, BulkImport(p, w, m, T) PROVE FALSE
    BY <1>2 DEF BulkImport, perform_bulk_import
  <1>3. ASSUME NEW p \in ProjectIds, NEW w,
               CreateWorkplan(w, p) \/ MoveWorkplan(w, p) \/ BeginPlan(w, p)
        PROVE  FALSE
    BY <1>3 DEF CreateWorkplan, MoveWorkplan, BeginPlan
  <1>4. ASSUME NEW w, ArchiveWorkplan(w) \/ CompleteWorkplan(w) \/ ToolSetStatus(w) PROVE FALSE
    BY <1>4 DEF ArchiveWorkplan, CompleteWorkplan, ToolSetStatus, SetStatus
  <1>5. ASSUME NEW W, NEW D, Delete({}, W, D) PROVE FALSE
    BY <1>5 DEF Delete
  <1>6. ASSUME NEW w, DeleteWorkplan(w) PROVE FALSE
    BY <1>5, <1>6 DEF DeleteWorkplan
  <1>7. ASSUME NEW m, DeleteMilestone(m) PROVE FALSE
    BY <1>5, <1>7 DEF DeleteMilestone
  <1>8. ASSUME NEW m, NEW w, CreateMilestone(m, w) \/ MoveMilestone(m, w) PROVE FALSE
    BY <1>8 DEF CreateMilestone, MoveMilestone
  <1>9. ASSUME NEW t, DeleteTask(t) \/ PlanTask(t) PROVE FALSE
    BY <1>9 DEF DeleteTask, PlanTask
  <1>10. ASSUME NEW t, NEW x, Put(t, x) PROVE FALSE
    BY <1>10 DEF Put
  <1>11. ASSUME NEW t, NEW x,
                CreateTask(t, x) \/ PatchTask(t, x) \/ ToolPutTask(t, x) \/ ManageTask(t, x)
         PROVE  FALSE
    BY <1>10, <1>11 DEF CreateTask, PatchTask, ToolPutTask, ManageTask
  <1>12. ASSUME NEW t, NEW u, Link(t, u) PROVE FALSE
    BY <1>12 DEF Link
  <1>13. ASSUME NEW l, Unlink(l) \/ EndPlan(l) PROVE FALSE
    BY <1>13 DEF Unlink, EndPlan
  <1>14. ASSUME NEW w, InferProject(w) PROVE FALSE
    BY <1>14 DEF InferProject
  <1>15. ASSUME NEW m, NEW T, SendImport(m, T) PROVE FALSE
    BY <1>15 DEF SendImport, perform_bulk_import
  <1>. QED
    BY <1>1, <1>2, <1>3, <1>4, <1>6, <1>7, <1>8, <1>9, <1>11, <1>12, <1>13,
       <1>14, <1>15
    DEF BoardNext

LEMMA DeletionKeepsTasks ==
  ASSUME BoardInv, NEW p \in ProjectIds, DeleteProject(p)
  PROVE  DOMAIN tasks \ loose \subseteq DOMAIN tasks'
  <1>. DEFINE W == {w \in DOMAIN workplans : workplans[w].project = p}
              N == {} \cup {m \in DOMAIN milestones : milestones[m] \in W}
              kept == {t \in DOMAIN tasks : tasks[t].workplan \notin W /\ tasks[t].milestone \notin N}
  <1>1. tasks' = Restrict(tasks, kept) /\ ~Protected(p)
    BY DEF DeleteProject, Delete
  <1>2. DOMAIN tasks' = kept
    <2>. HIDE DEF kept
    <2>. QED  BY <1>1 DEF Restrict
  <1>3. ASSUME NEW t \in DOMAIN tasks \ loose PROVE tasks[t].workplan \notin W
    <2>1. tasks[t].project # p
      BY <1>1 DEF Protected
    <2>2. Nothing \notin DOMAIN workplans
      BY BoardConstants DEF BoardInv, BoardType
    <2>. QED  BY <2>1, <2>2 DEF BoardInv, ParentsAgree
  <1>4. ASSUME NEW t \in DOMAIN tasks \ loose PROVE tasks[t].milestone \notin N
    <2>1. Nothing \notin DOMAIN milestones
      BY BoardConstants DEF BoardInv, BoardType
    <2>2. tasks[t].milestone \in DOMAIN milestones => milestones[tasks[t].milestone] = tasks[t].workplan
      BY <2>1 DEF BoardInv, ParentsAgree
    <2>. QED  BY <1>3, <2>2
  <1>. QED  BY <1>2, <1>3, <1>4

(* The deletion of a project takes no task of another along, but for tasks   *)
(* whose parents were last set or moved by a path that compares none.        *)
THEOREM ProjectTasksStay == BoardSpec => ProjectDeletionKeepsTasks
  <1>1. BoardInv /\ [BoardNext]_boardVars
          => [projects' \subseteq projects /\ projects' # projects
                => DOMAIN tasks \ loose \subseteq DOMAIN tasks']_boardVars
    BY OnlyDeletionRemoves, DeletionKeepsTasks
  <1>. QED  BY <1>1, InitBoard, NextBoard, PTL DEF BoardSpec, ProjectDeletionKeepsTasks
=============================================================================
