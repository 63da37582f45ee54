------------------------- MODULE TaskStateMachine -------------------------
(***************************************************************************)
(* The task state machine of src/tasks/state_machine.py: the status graph, *)
(* the guards that run on a transition and the rule that decides whether   *)
(* one is accepted.  Nothing here has state; the modules that model the    *)
(* handlers extend it.                                                     *)
(***************************************************************************)
EXTENDS Naturals, FiniteSets

TERMINAL_STATUSES == {"done", "cancelled"}

NON_TERMINAL_STATUSES ==
    {"draft", "pending_start_review", "todo", "doing",
     "pending_completion_review", "integrating", "changes_requested",
     "needs_attention", "blocked", "deferred"}

Statuses == NON_TERMINAL_STATUSES \union TERMINAL_STATUSES

\* The status graph: every status with the statuses it may be followed by.
VALID_TRANSITIONS ==
    [draft                     |-> {"pending_start_review", "todo",
                                    "cancelled", "deferred"},
     pending_start_review      |-> {"todo", "changes_requested",
                                    "cancelled", "deferred"},
     todo                      |-> {"doing", "blocked",
                                    "cancelled", "deferred"},
     doing                     |-> {"todo", "pending_completion_review", "done",
                                    "needs_attention", "blocked",
                                    "cancelled", "deferred"},
     pending_completion_review |-> {"done", "integrating", "changes_requested",
                                    "cancelled", "deferred", "needs_attention"},
     integrating               |-> {"done", "needs_attention",
                                    "cancelled", "deferred"},
     changes_requested         |-> {"doing", "pending_start_review",
                                    "pending_completion_review", "draft",
                                    "cancelled", "deferred"},
     needs_attention           |-> {"draft", "todo", "cancelled", "deferred"},
     blocked                   |-> {"todo", "doing", "cancelled", "deferred"},
     deferred                  |-> {"todo", "cancelled"},
     cancelled                 |-> {},
     done                      |-> {}]

MilestoneStatuses == {"pending", "active", "completed"}

\* The statuses a verdict may be given in (reviews/services.py).
REVIEW_STATUSES == {"pending_start_review", "pending_completion_review"}

(***************************************************************************)
(* Deadlines.  A claim can be renewed, so its deadline is null, still      *)
(* ahead or past.  The deadlines of the review and of the integration are  *)
(* never renewed: they are null or set, and one that is set may be past    *)
(* at any later moment.                                                    *)
(***************************************************************************)
Leases == {"none", "live", "expired"}

(***************************************************************************)
(* A specification as the admission gate sees it: how many acceptance      *)
(* criteria it lists, which of them the gate command labels, whether there *)
(* is a gate command at all and whether the fail-loud directive is there.  *)
(***************************************************************************)
guard_spec_admissible(spec) ==
    \/ spec.criteria = 0
    \/ /\ spec.command
       /\ 1 .. spec.criteria \subseteq spec.labelled
       /\ spec.fail_loud

(***************************************************************************)
(* What the guards look at, as a record: `milestone` is the status of the  *)
(* task's milestone or "none" for a task without one, `workgraph` whether  *)
(* that milestone owns an integration branch, `workplan` whether the task  *)
(* has a workplan, `admissible` the verdict of guard_spec_admissible.      *)
(***************************************************************************)
\* Variant: the guard is about finished milestones only.
guard_milestone_not_completed(ctx) == ctx.milestone # "completed"

guard_milestone_active(ctx) == ctx.milestone \in {"none", "active"}

\* Variant: a milestone's branch does not matter at the end of a task.
guard_done_by_review(from, ctx) == TRUE

guard_done_via_integration(from, ctx) ==
    ctx.workgraph => from = "integrating"

ExitGuards(from, ctx) == from = "draft" => guard_milestone_active(ctx)

EntryGuards(from, to, ctx) ==
    /\ to = "todo" => ctx.workplan /\ ctx.admissible
    /\ to = "done" => guard_done_via_integration(from, ctx)

\* Variant: the graph is not consulted.
AcceptsByGuards(from, to, ctx) ==
    ExitGuards(from, ctx) /\ EntryGuards(from, to, ctx)

\* perform_transition accepts the move: it is in the graph and no guard
\* refuses it.  A refusal raises before anything is written.
Accepts(from, to, ctx) ==
    /\ to \in VALID_TRANSITIONS[from]
    /\ ExitGuards(from, ctx)
    /\ EntryGuards(from, to, ctx)

\* Variant: a second round of review keeps the deadline of the first.
EnteredUnwatched(row, to) ==
    [row EXCEPT !.status = to,
                !.integration_lease = @ \/ to = "integrating"]

(***************************************************************************)
(* The row after an accepted transition: the new status and, on entry to a *)
(* phase with a lease of its own, a fresh deadline.  No lease is cleared.  *)
(***************************************************************************)
Entered(row, to) ==
    [row EXCEPT !.status = to,
                !.review_lease = @ \/ to = "pending_completion_review",
                !.integration_lease = @ \/ to = "integrating"]
=============================================================================
