# A TLA+ model of vtaskforge

vtaskforge is a Django service through which people and software agents share
work: *tasks* are written, admitted, claimed by agents, reviewed, merged and
closed; *milestones* group tasks and may own an integration branch into which
their tasks are merged one at a time. This directory holds a model of that core
and of the services around it, the configurations TLC checks it with, and proofs
for TLAPS. Paths below are relative to the repository.

## 1. The system

### Processes

Several gunicorn workers serve the REST API (`src/vtaskforge`), a second process
serves the MCP tools (`src/mcp_server`), one Celery beat starts three periodic
tasks every 60 seconds and a Celery worker runs them. They share nothing but the
PostgreSQL database and the cache. `ATOMIC_REQUESTS` is off: unless a handler
opens a transaction, each of its statements commits by itself. Only `claim_task`,
`take_merge_slot` and the bulk import open one.

### Components

| Component | State | Operations | Hard part | Correct when |
|---|---|---|---|---|
| Task state machine (`tasks/state_machine.py`) | `Task.status`, two deadlines | `perform_transition`: graph, guards, save, completion of the milestone | decides on the copy the caller read | no status is reached past the graph or a guard |
| Task API (`tasks/views.py`) | the task row | submit, claim, unclaim, complete, fail, integration-result, recover, resubmit, block, unblock, defer, cancel, heartbeat, assign, reset, create, PATCH, DELETE | several saves per handler, overlapping handlers | a claim has a claimant and a deadline; terminal is terminal |
| Claim service (`tasks/services.py`) | claim columns, links | `claim_task` under the row lock, `resolve_dependencies` | two agents, one task | one agent per task, dependencies first |
| Merge slot (`tasks/services.py`) | which task is `integrating` | `take_merge_slot` under the milestone's row lock; left by result, reaper, cancel, defer | two approvals at once; a controller that dies | one merge per milestone, and never for ever |
| Reapers (`tasks/celery_tasks.py`) | the three deadlines | expire claims, reviews, integrations | race with agents; two saves | whatever waits is moved on in the end |
| Reviews (`reviews/services.py`) | `review_return_to` | approve, request changes, reject | double verdicts | approval of a workgraph task leads to a merge, not to done |
| Milestones (`workplans/`) | status, integration branch | activate, complete, PATCH, DELETE, complete and reactivate automatically | check-then-act over many tasks | completed exactly when its tasks are over |
| Links (`links/`) | depends_on links | create, delete | dangling, cyclic | see claim service |
| MCP tools (`mcp_server/tools/`) | none of their own | one tool per operation, `vtf_manage_*` with the operation as an argument, and the agents' work and review tools | the handlers' checks written again, three times over | no tool is a way around a check |
| Events (`events/`) | one row per event | record; stream to browsers | cursor by timestamp, late commits, reconnection | the only events passed over are late or tied ones |
| Idempotency (`core/idempotency.py`, the SDK's transport) | cached answers | look up, store; retry | overlapping retries, dying workers | a request repeated under one key takes effect once but for named faults |
| Locks (`prefs/`) | one row per project and role | acquire, reconnect, release, force | check-then-act | one lock, held until released |
| Recent accesses (`prefs/`) | rows of a user | upsert, query, trim | three statements | bounded, and the newest stays |
| Agents (`agents/`) | agent, user, token, link, profile | register (upsert by name) | check-then-act, crash between any two | an agent that was answered can work; one agent per name |
| Projects, workplans (`projects/`, `workplans/`, `core/bulk_import.py`, MCP planning) | which project, workplan and milestone a task names | create, move, delete with cascades, import, plan | three references that must agree, cascade against protection | parents agree; deleting a project takes nobody else's task |
| Permissions (`core/permissions_computer.py`, `core/authorization.py`) | memberships, creators, claims, profiles | add, change, remove; claim; create | two modules answer one question | what is offered is accepted |
| Secret variables (`variables/`) | declarations, a task's list | declare, withdraw, admit | check-then-save; stale declarations | admitted lists are sound, similar names are meant |
| Architect chat (`web/src/contexts/ChatWidgetContext.tsx`) | the widget, calls in flight, the bridge's sessions | open, acquire, heartbeat, send, close, unload | answers that find another widget | one project shown; a closed widget holds no lock |
| Command line and SDK (`cli/`, `vtf-sdk-python/`) | none of their own | retry loops; `vtf import`; `vtf task lint` | a look-up in one call and its use in the next | the linter has nothing against what the server admits |
| Sign-in codes, serializers, the other commands and managers, pages, deployment | | | | not modelled |

They interact by calls in the same process (a handler calls the state machine,
which calls the milestone completion and the event recorder), and otherwise only
through rows another process reads later.

`PROJECT.json` lists every component with its status and every hazard with the
line where it bites and the properties that watch it.

## 2. The modules

| Module | Models | Lines up with the code like this |
|---|---|---|
| `TaskStateMachine` | `tasks/state_machine.py` | `VALID_TRANSITIONS`, the guards by their names, `Accepts` (may this transition happen), `Entered` (the row it leaves). No state. |
| `TaskLifecycle` | the handlers, **each as one step** | one action per handler of `TaskViewSet`, `submit_review`, the milestone endpoints, the MCP tools that differ from them, the reapers, and the passing of a claim's deadline |
| `TaskRequests` | the same handlers, **statement by statement** | `Begin` reads the row and decides; then each `save()` is a step of its own, at a point of `Points`; `Claim` and the merge slot are transactions under a lock; `Crash` ends a request anywhere |
| `MergeSlot` | what `take_merge_slot` promises | a slot per milestone, acquired when free and released |
| `AgentTools` | the MCP tools that change tasks, links or milestones | one operator per tool, written from the tool's own code on the state of `TaskLifecycle`, whose handlers it is compared with |
| `EventStream` | `events/services.py`, `events/stream.py` | `Stamp` and `Commit` are the two halves of recording an event in a transaction; `Poll`, `Send`, `Reconnect` the stream and its client |
| `Idempotency` | `core/idempotency.py`, the `_request` of both transports of the SDK | attempts of one POST: `process_request`, the handler, `process_response`; `Retry`, `CallAgain`, `Die`, `Expire` |
| `Registration` | `AgentViewSet.create`, the profile services | one action per statement, `Interrupt` between any two |
| `SessionLock` | `acquire_lock`, `release_lock` and the views and the tool that call them | look-up and creation apart, under the unique constraint |
| `Recents` | `record_access` | upsert, query for the rows to keep (as ids: a row deleted and created again is another one), deletion; `later` is the order of `accessed_at` |
| `Workboard` | projects, workplans, milestones, tasks and links as rows that name each other | the views, the MCP tools, `perform_bulk_import` and `vtf import`, `vtf_plan_work`, PATCHes that move, cascades |
| `Access` | `permissions_computer.py` against `authorization.py` | both modules' functions by their names, and what changes memberships, profiles and claims |
| `ProjectVariables` | `variables/`, `vtf task lint` | declaration in two statements, `validate_task_variables` entry after entry, and the linter's own comparison |
| `ChatWidget` | the web client's chat | one action per callback and per interaction; the bridge as the code uses it |
| `*_proofs` | | theorems about the module of that name, checked by tlapm; `Services_proofs` has those about `Idempotency`, `Registration`, `ProjectVariables`, `EventStream` and `Recents` |
| `MCTaskLifecycle`, `MCTaskRequests`, `MCAgentTools`, `MCServices` | | instances for TLC |

`TaskRequests` implements `MergeSlot` under the mapping `Merging` (the slot of a
milestone is held by its `integrating` tasks); this is the property `SlotSpec`.
`AgentTools` implements `TaskLifecycle` with the identity as its mapping: a tool's
step is a handler's step (`ToolsAreHandlers`, theorem `ToolsImplementLifecycle`).

### State

`TaskLifecycle` keeps the task rows (`task`), the columns their authors write
(`brief`: whether there is a workplan, the specification as the admission gate
sees it, the assignee, the two *effective* review flags), the milestones
(`status`, and whether there is an integration branch), the depends_on links and,
of the events, whether a task has a `claimed` and an `integration_succeeded` one.

Abstractions, all of them of data:

- *Deadlines.* There is no clock. A claim's deadline is `none`, `live` or
  `expired`; `LeaseRunsOut` is the passing of time and a heartbeat renews. The
  review and integration deadlines are never renewed, so it is enough to know
  whether one is set; one that is set may be past at any later moment.
- *Review flags.* `get_effective_review_flags` falls back from the task to its
  milestone and workplan. The model keeps the outcome, and `EditTask` may change
  it at any time, which is what a change at any of the three levels does.
- *Tags.* `TagMatch` says which agent's tags cover which task.
- *Specification.* A number of criteria, the labels the gate command mentions,
  whether there is a command and whether the directive is there.
- `retry_count`, notes, summaries and wording are left out.

A task that does not exist has status `absent`; a deleted key may be created anew,
which stands for a new task.

`Optional` switches off handlers an instance or a theorem does not want:
`create`, `link`, `patch`, `move` (a PATCH of the milestone of a task), `columns`
(a PATCH of `review_return_to`, `claim_expires_at` or a milestone's status, all
of which the serializers accept), `delete`, `reset`, `complete_milestone` and
`mcp`. Everything else is always on.

`TaskRequests` starts with admitted tasks in active milestones and leaves to
`TaskLifecycle` what a claim checks besides the status. The milestone's status
comes with the row read first (`select_related`). The review service reads it
without; it is loaded when the branch is looked up and used at the end. Its
"patch" is a PATCH of authored columns, which saves the other columns as read.

The services keep what their properties tell apart, and *history variables* that
no code has: they say what has happened so that a property can name its
exceptions. `EventStream` keeps the order of commits and how often the client got
each event; `Idempotency` counts overlaps, lost and expired answers;
`Registration` the names whose registration died or overlapped; `SessionLock` the
locks released; `Recents` whether the last access came between another request's
query and deletion; `Workboard` the tasks and workplans whose place was last set
by a path that compares no parents (`loose`); `ProjectVariables` the declarations
forced or overlapped and the names withdrawn; `ChatWidget` the projects whose lock
the widget lost sight of. No guard reads them.

`Workboard` leaves out statuses of tasks: what `vtf_plan_work` does after it
created a task (`perform_transition` to todo) is `SubmitTask` of `AgentTools`.

## 3. The runs

All runs disable the deadlock check: a project whose tasks are all done, or a
milestone nobody activates, really is at rest.

| Run | Instance | Shows |
|---|---|---|
| `lifecycle_core` | 2 tasks, 1 agent, 1 milestone, each kind of review, with and without a dependency, MCP tools | merges serial, waiting tasks have deadlines, merged and claimed before done, dependencies in order, pending milestones hold drafts, an unfinished milestone has work and a completed one none, what the listing offers the claim accepts |
| `lifecycle_any` | 1 task and every option except links | terminal statuses are left only by a reset or a deletion; a task that is reopened reopens its milestone |
| `lifecycle_live` | 2 tasks, one of them created later; links, edits and moves | abandoned claims, forgotten reviews and stuck merges end |
| `lifecycle_unmerged` | **violation**; the instance of the core run, with edits and no links | a task can be done without its merge |
| `tools` | 1 task, 1 agent, 1 milestone, three kinds of brief, a link of the task to itself | every step of a tool is a step of the handlers |
| `requests_slot` | 2 tasks, 2 overlapping requests: complete, approve, report, cancel, recover and two reapers | merge slot and its refinement, deadlines, completion of the milestone by one of two overlapping finishers |
| `requests_serial` | 1 task, 2 agents, 1 request at a time, all handlers but the reset | the statements of a handler, alone, keep terminal statuses terminal |
| `requests_claims` | 2 agents, 2 requests, crashes, resets | an agent never loses its task to another without a release |
| `requests_terminal` | **violation** | two overlapping handlers take a task out of a terminal status |
| `requests_unclaim` | **violation** | a release that overlaps a new claim takes its deadline |
| `services` | see below | the properties of the eight service modules |
| `chat` | 2 projects, 2 calls in flight, 2 sessions of the bridge | the widget shows one project, closed it holds no lock it knew of, a lost lock is noticed |

`MCServices` puts the eight service modules into one instance. They share no rows,
so a behaviour picks one of them at the start (`focus`) and the others rest: the
states are the union of the eight state spaces, not their product.

| Module | Bounds in `services` | Why they are enough |
|---|---|---|
| `EventStream` | 3 events, 2 instants, 1 reconnection without an anchor | a late commit needs two events and two instants; a third makes a tie or a second batch |
| `Idempotency` | 4 attempts, 2 retries a call, 1 expiry | one retry loop exhausted and a new call; an overlap, a loss and an expiry in one behaviour |
| `Registration` | 2 requests of one name, and an agent from before the link and the profile | two overlap, or the second finds what the first left |
| `SessionLock` | 3 sessions of 2 users, 1 slot, 3 rows | a race between users, two sessions of one user, a row that comes back under a new id |
| `Recents` | 3 requests, 3 resources, `MAX_RECENT` 2 | more resources than places; a visit between another's query and deletion, twice. `MAX_RECENT` in the code is larger; nothing depends on its value but the comparison |
| `Workboard` | 2 projects and 2 workplans (symmetric), 1 milestone, 1 task; `MaxPlanners` 1, of the two clients that look up or commit in one call and go on in a later one, one at a time | parents disagree about one task in one milestone between two workplans of two projects |
| `Access` | 1 member of staff and 1 other user | the functions judge a user alone; what others do reaches it by memberships, the creator and the claim |
| `ProjectVariables` | 2 similar names, 2 overlapping declarations, lists of up to 2 entries out of 4 | a collision needs two entries, a missed similarity two requests |

In `chat`, `MaxCalls` 2 lets one late answer meet another call, `MaxSessions` 2 lets
somebody else take the project, and heartbeats are asked one at a time: the code
asks the next when the interval has passed even if the last is still out.
`Patient` is TRUE: the user does not click while an acquisition, a release or the
history is under way, see the divergences.

*Why these bounds.* Slot, completion and dependency properties speak of pairs of
tasks in one milestone; two tasks are the smallest instance with all of them, and
milestones do not share state except through a task that is moved, which concerns
the live run (there between a milestone and none). One agent is enough where
agents only compete by status; `requests_claims` and `requests_serial` have two.
Two requests are enough to have one act between any two statements of the
other; three at once multiply the states without a new pair. The lifecycle has no
counters, hence no cut-offs; the services' bounds are named constants in their
guards. The proofs hold for every number of all of these.

*Where properties hold.* `ClaimedBeforeDone` and `DependencyOrder` except tasks
with a start review, for which the code does not promise them: one that was sent
back by its reviewer is in `changes_requested`, from where `complete`, which does not
ask for `doing`, puts it up for completion review unclaimed. `DependencyOrder` is for
fixed links: a new link may point anywhere. `MergedBeforeDone` needs review flags
that stay what they were, see the third disagreement below. The other properties of
`lifecycle_core` hold without resets, moves and column edits, which is what the
theorems assume too. The exceptions of the services' properties are what the code
leaves open, and each is named in the comment above the property: a tie or a late
commit for the stream, an overlap for the registration and the similar names, a
path that compares no parents for the board.

### Fairness

`FairSpec` assumes weak fairness of `LeaseRunsOut` (time passes) and of each
reaper per task (beat starts each of them every 60 seconds,
`vtaskforge/settings/base.py:161-176`, and a run looks at every stale row). No
agent, reviewer, controller or administrator is assumed ever to act.
`StalledClaimEnds` therefore says: a task may stay `doing` for ever only if its
agent keeps sending heartbeats. Weak fairness is enough since only the reaper or
another move of the task ends what enables it.

`FairChatSpec` assumes that the interval of `useLockHeartbeat` keeps asking while the
widget is connected (weak fairness of `AskBeat`) and that of the heartbeats asked
again and again some are served and answered (strong fairness: a single one may be
lost). Neither the user nor the bridge is assumed ever to do anything else.

### Disagreements found

1. `requests_terminal`: `perform_transition` (`tasks/state_machine.py:258`) saves a
   status it validated on an old copy. A completion and a cancellation that
   overlap take a task from `cancelled` to `pending_completion_review`.
   The design document calls these statuses terminal.
2. `requests_unclaim`: the second save of `unclaim` (`tasks/views.py:309`) also
   clears the claim another agent just made; the task rests in `doing` without a
   deadline. `fail` and `recover` end with the same save.
3. `lifecycle_unmerged`: `complete` (`tasks/views.py:326`) does not ask for `doing`.
   When the completion review of an integrating task is switched off, it goes from
   `integrating` to `done` with no merge reported.

Divergences met while reading, which no run is needed to show:

- `complete` aims at `done` for a workgraph task that needs no completion review,
  and `guard_done_via_integration` refuses that outside of `integrating`
  (`tasks/views.py:323` says such a task becomes done). It can only fail, expire, be
  blocked or be put aside. The flag defaults to true, so it takes an explicit false,
  or null with false further up.
- The MCP server's activation decides no integration branch
  (`mcp_server/tools/milestone_crud.py:57-73`, `milestone.py:242-290`);
  `docs/wc1-composition-contract-DESIGN.md:38-41` has it decided at activation.
- `milestone.py:294` says of the deletion of a milestone "tasks become orphans in the
  workplan"; the foreign key cascades and the tasks go.
- A project that has no task left but a link is refused deletion with "it still has
  tasks" (`projects/views.py:91`): the links' key is protected as well.
- The MCP tools complete and archive a workplan whatever its status; the views refuse.
- `core/authorization.py:12` says that fleet principals have no membership row; a
  claim gives its agent one (`tasks/views.py:245-252`).
- `can_edit` of a project is offered to every member and a PATCH accepted from its
  creator; an owner whose profile says "service" is offered an owner's rights and
  treated as a member. Viewers may create workplans and milestones, not tasks.
- `events/stream.py:48-49` speaks of events with one timestamp; the ids kept for them
  are of no use, since the query asks for strictly later timestamps.
- A chat widget that is closed while it acquires sends no release, and the lock that
  is acquired afterwards stays: with `Patient = FALSE` TLC finds `ClosedHoldsNoLock`
  violated (`ChatWidgetContext.tsx:420`: "Release lock, clear everything, close
  widget"). Opened over another project it keeps the messages of the first, which is
  why `ShowsOneProject` excludes widgets that were `moved`.
- An approval that finds the merge slot taken ends in a server error: neither
  `reviews/views.py:57` nor `vtf_review_task` expects `MergeSlotError`.

## 4. The proofs

`tlapm` checks all theorems; they hold for all values of the constants that
satisfy the named assumptions of the modules (`ConstantsAssumption`,
`RequestsAssumption`, `LockConstants`, `BoardConstants`, `AccessConstants`,
`IdempotencyConstants`, `RegistrationConstants`, `VariableConstants`,
`StreamConstants`, `RecentConstants`, `ChatConstants`). Every invariant a passing
run checks and every action property but the liveness ones is the statement of a
theorem. Where a theorem has a hypothesis, it is one about which handlers are
allowed, and it is there because the property fails without it:

| Hypothesis | Says | Why it is needed |
|---|---|---|
| `Maintained` | no `move`, no `columns` | a PATCH may take a merging or an open task into another milestone, or clear a deadline |
| `Confined` | `Maintained` and no `reset` | a reset writes `integrating` or `done` past slot, guards and deadlines |
| no `patch` | the review flags stay | see the third disagreement of section 3 |
| `Settled` | `Confined`, all tasks there from the start, no `patch`, `link`, `delete` | a new or a deleted link changes what a finished task depended on |
| `NoForce` | no `reset`, no `patch` among the requests | both write a status without a transition |
| `~ Crashes` | no process dies between two statements | a reaper that dies after it took the deadline, a finisher that dies before it looks at the milestone |
| `OneAtATime` | at most one request | the first disagreement of section 3 |
| `Patient` | the user waits for what was asked | answers about two projects would be under way at once |

The runs choose constants that satisfy them, so each is met by the very behaviours TLC
explores.

**TaskLifecycle.** `TypeCorrect`, `TerminalStays`, `ReopenedShows` and
`OffersCanBeClaimed` need nothing else.

- `MergesAreSerial` (`Confined`): `OneIntegrating` is inductive with the type
  invariant, which without `columns` says that `return_to` is a review status: a
  resubmission then cannot lead into `integrating`, and the approval, with its look
  at the slot, is the only way in.
- `WaitingIsWatched` (`Confined`): inductive with the type invariant; the deadline is
  set by the transition into the phase, and the reapers, which clear it, leave the
  phase.
- `PendingHoldsDrafts` (`Confined`): leaving `draft` requires an active milestone, and
  no handler makes an active milestone pending again.
- `MilestonesFollowTheirTasks` (`Confined`, no `delete`): rests on the last: a pending
  milestone's tasks are drafts and therefore open; in an active one, whoever ends the
  last open task completes the milestone in the same handler. Deleting the last open
  task completes nothing.
- `DoneMeansMerged` (`Confined`, no `patch`): joined with `PendingMeansDraft` and
  `ReviewedAsAsked` (a task is in its completion review, on its way back to it, or
  merging only where that review was asked for). A task that merges therefore has the
  flag on, which keeps `complete` from ending it: only the report of the merge does.
- `DoneMeansClaimed` (`Confined`, no `patch`): strengthened to every phase after `doing`.
- `WorkFollowsDependencies` (`Settled`): a task that has been claimed, whatever its
  status now, has dependencies that are done, and `done` is terminal.
- `NothingHidesInCompleted` (`Maintained`, neither `create` nor `complete_milestone`):
  with resets; a handler that reopens a task reopens its milestone, and completion
  looks at all tasks.
- `ReopenedShows` follows from the step of `Reset` alone. `OffersCanBeClaimed` is true
  of every state: the query's conditions imply `MayClaim`.

**TaskRequests.** `TypeCorrect` needs nothing else. `MergesAreSerial` and
`SlotImplemented` assume `NoForce`: no resets and no PATCH, which write a
status without a transition. The inductive invariant `IInv` joins `TypeOK`,
`OneIntegrating` and two strengthenings: `Copied` (a request that will write its
copy back, or save the status in it, has a row as its copy) and `SlotInv` (a
request inside `take_merge_slot` holds the lock of its milestone; one about to
enter found no sibling integrating, and none has entered since, for entering needs
the lock; a request about to save a status outside of it is not bound for
`integrating`; and none is at a forced write or a write-back).
Without `SlotInv` the step `EnterSlot` is not inductive: it no longer looks.
`SlotImplemented` then shows that each step changes `Merging` by an acquisition of
a free slot, a release, or not at all. Any number of requests may overlap and
crash.

`WaitingIsWatched` and `LastOneCompletesMilestone` (`NoForce`, `~ Crashes`) speak of
what a request still owes: the first of the reaper that took a deadline and has its
transition before it, the second of the requests that have ended a task and not yet
looked at the milestone (`AllEnded`). When the tasks of a milestone have all ended
and it is not completed, some request is on its way to do so; at rest there is none.
`ClaimsAreNotStolen` (no PATCH) needs no more than the types, `Copied`, and that no
request is at a write-back: every statement but a claim
keeps or clears the claimant, and a claim is only made outside of `doing`. Processes
may die and administrators reset. `AloneTerminalStays` (`OneAtATime`, no reset) has
`ReadsHold` as its invariant: until a lone request has saved its status, the task it
read has not ended, because claims and deadlines, the only other steps, end nothing.

**AgentTools.** With the options the tools come with, `ToolsDoWhatHandlersDo` shows
tool by tool that what it does is `PerformTransition` from a status in which the
handler does the same, or the handler itself; the type invariant is needed because a
tool reads the row a handler would read. `ToolsImplementLifecycle` follows, so that
every theorem about `Spec` speaks of the tools too.

**SessionLock.** `OneLock` and `LockStays` rest on `LockInv`: ids are given once and
in order (`LockType`), and a session about to save its id into a row owns that row
or the row has been released (`SavesItsOwn`). Without the latter the step
`SaveSession` is not inductive: it does not look at the owner again.

**Workboard.** `ParentsStayAgreed` rests on `BoardInv`: ids are not given twice, so
that a deleted workplan cannot come back in another project, and what
`vtf_plan_work` is about to write agrees, too (`PlanAgrees`). `ProjectTasksStay`
follows: of all steps only `DeleteProject` takes projects away; it takes the tasks
of the project's workplans, those that are not loose belong to the project, and the
project has none.

**Access.** `OffersHold` needs no history: whoever is offered something is staff, an
owner or a member who created the entity, and each of them passes.

**Services.** None of these has a hypothesis besides the assumptions on constants.

- `KeyTakesEffectOnce`: `KeyInv` counts: the effects there are, and those that attempts
  under way may yet have, are at most one for each fault and one for the answer that
  is stored or being made. Every attempt that passes the look-up with another under
  way adds an overlap, which is what keeps the sum.
- `AnsweredAgentsWork`: `WrittenInv` says of each point of a registration which rows
  are written by then. `NamesStayUnique`: `AloneInv` says of a name without overlaps or
  deaths that its one registration sees what the earlier ones left.
- `LookalikesAreMeant`: a request that met no other since its check may still rely on
  what it saw (`MeantInv`), for any symmetric relation of likeness.
- `AdmittedListsAreSound`: what `validate_task_variables` accepts is `BoundOnce`, and
  what it covers stays covered or is noted as lapsed. The theorem speaks of lists of
  one and two entries, the ones the model admits; the lemma `FoldOfTwo` computes the fold
  over them, and lists of any length would take an induction over their entries.
- `StreamMissesOnlyLateOnes`, `StreamRepeatsOnlyByRewinds`: `StreamInv` relates the
  cursor to what the client has and to the batch being sent, which is in the order of
  the query and not sent yet in this round.
- `RecentsStayBounded`, `NewestAccessKept`: `RecentsInv` says that every request keeps at
  most `MaxRecent` rows (`KeptAreFew`: no two rows have equally many later ones) and that
  whoever deletes last leaves no others; and an access nobody was about to delete by
  is the latest, so that every query after it finds it.

**ChatWidget.** For a patient user. `ChatInv` joins five parts. `BridgeInv`: sessions
are numbered as they begin and belong to one project, and so does what a call was
answered. `CallInv`: there is at most one call about the lock, calls are about the
project that is shown, and nothing else that matters is under way during a release;
a release that was served has left the user no lock. `ShowInv`: what is shown,
streamed and stored is of one project until the widget is moved. `LocksInv`: a lock
of the user's is lost sight of, or it is that of the project shown and the widget is
connected or about to be told. `OneProjectIsShown` is a part of `ShowInv`;
`CloseReleases` follows from `LocksInv` for a widget that shows nothing. Projects, calls
in flight and sessions may be any number.

**Only model-checked:** the four liveness properties (`StalledClaimEnds`,
`StalledReviewEnds`, `MergeSlotFrees`, `LostLockNoticed`), since fairness and `ENABLED`
are outside the prover's reach, and the three violations.

## 5. What is not modelled, and the plan

Not modelled:

- *Review policy.* The cascade task, milestone, workplan is abstracted to its outcome.
- *Serializers, references, error envelopes, the SDK's managers, the commands and the
  pages.* They translate and keep no state.
- *Sign-in codes.* A code is looked up and marked as used on behalf of another
  program; the models leave signing in aside.
- *PATCH and DELETE of agents; preferences, external identities, channel mappings and
  session records.* Single rows written by single statements.
- *The snapshot of variables at a claim and the audit of fetches.* Copies.
- *Files, notes, listings, search and the board.* No effect on the modelled state.
- *Deployment.* Configuration.

The plan, in this order:

1. *More of the core by request.* Runs with crashes for `WatchedWhileWaiting`;
   overlapping PATCH; task creation that overlaps the completion of the milestone;
   a run for the draft of an inactive milestone that cannot be cancelled, which
   `docs/design/vtaskforge-DESIGN.md:329-330` says it can.
2. *Refinement.* With one request at a time and no crash, `TaskRequests`
   implements `TaskLifecycle` handler by handler.
3. *Proofs:* `WaitingIsWatched` with crashes, in the weaker form that holds; the
   handler-by-handler refinement of item 2.
4. *Review policy* as a pure operator against a reference.

## 6. Running

    tlc -workers 2 -config lifecycle_core.cfg MCTaskLifecycle
    tlapm TaskRequests_proofs.tla

The definitions commented as *Variant* are plausible slips of the code, each
placed before the definition it would replace; `PROJECT.json` pairs every property
with one it catches. No specification uses them.
