# A verification development of sw-factory

TLA+ models of the coordinator's core logic, TLC configurations that check them on small instances, and TLAPS proofs of
main safety properties for every instance. `PROJECT.json` maps each definition to the source lines it translates, lists the
runs, the mutants that break each property, the hazards of the code, the findings and the theorems. Paths below are relative
to `src/`.

sw-factory is a single-host coordinator. It claims labelled issues of a tracker, lets harness processes in worker
containers write tests, code and reviews, and publishes the result as a pull request; an ideation mode lets people draft a
plan of items and publishes the approved plan to the tracker. Everything durable is in one SQLite store. Every action on
the outside world goes through a boundary that survives a stop of the process.

## 1. The system

| component | source | state it keeps | operations | modelled |
|---|---|---|---|---|
| Effect journal | `internal/effect` | one pending-effect row per run | reserve, apply, replay, clear, for ten effect kinds | `EffectJournal` |
| Operational store | `internal/store` | run, invocation, packet, gate results, session, ledger, review rows | revision-guarded saves, packet boundary, reservation rules | with the component that owns the row |
| Restart recovery | `factory/recovery.go` | none of its own | reconcile a run, compare with projections, pause, abandon | `EffectJournal`; its routes in `RunProgression` |
| Run progression | `factory/progression.go`, `draft_pr.go`, `test_stage.go` | stage and status of a run | start an agent, run a gate, accept a report, stop | `RunProgression` to the draft pull request, then `ReviewRound` |
| Gates, onboarding proof | `internal/gate`, `internal/gateproof`, `factory/gate.go` | results by phase and checkpoint, commit statuses | run a suite, save, decide, prove a configuration | `GateSuite` |
| Check repair, test revision | `factory/repair.go`, `test_stage.go`, `report_acceptance.go` | attempt counters, objections | route a failed check, start an attempt, exhaust the budget | `RunProgression` |
| Review units and repair | `factory/review*.go`, `readiness.go`, `store/review_units.go` | round, unit and result rows, aggregates and repair history in the run | launch under a ceiling, collect, aggregate, repair, undraft | `ReviewRound` |
| Invocation lifecycle | `factory/invocation_lifecycle.go` | invocation, lease | launch, resume, pause, retry | `RunProgression`, `ReviewRound`, `EffectJournal` |
| Commands | `factory/command.go`, `clarification.go` | processed-comment watermark | parse, authorise, apply once | projections in `EffectJournal`, decisions in `RunProgression` and `ReviewRound` |
| Claim, lifecycle of an issue | `factory/claim.go`, `lifecycle.go` | run row, issue label | select, claim, publish, fail a claim, cancel | `CoordinatorHost`; the publication in `EffectJournal` |
| Report contract | `internal/report` | none | validate a report for the worker that writes it and the coordinator that accepts it | `ReportContract` |
| Report acceptance | `factory/report_acceptance.go` | invocation, run | admit, classify, commit a report | its steps in `RunProgression` and `ReviewRound`, the commit in `EffectJournal`, the row it makes in `RunProjection` |
| Coordinator loop, cleanup, reset | `factory/polling.go`, `lock.go`, `supervisor.go`, `cleanup.go`, `reset.go` | lock file, heartbeat, worktrees, worker resources | start, stop, poll, renew, remove | `CoordinatorHost` |
| Publication | `internal/publication` | ledger rows, receipts | plan, publish, interrupt, reconcile | `PlanPublication`, `PlanOrder` |
| Ideation sessions | `internal/sessioncommand`, `factory/session_roles.go`, `store/ideation*.go` | inbox, session, turns, plans, approvals, role invocations | accept, claim, apply, launch a role, accept its report, release | `IdeationSessions`; the publishing half in `PlanPublication` |
| Planning port | `internal/tracker/planning.go`, `internal/github/plan.go`, `internal/azuredevops/plan.go` | the tracker | preflight, create, find | create and find in `PlanPublication`, the preflight in `PlanGraph` |
| Worker and headless harness | `internal/worker`, `internal/harness`, `cmd/factory-worker-headless` | container, state directory, command records | start, inspect, cancel, replace, terminate a command | `HeadlessProcess` |
| Plan graph, review partition | `internal/plangraph`, `internal/reviewunits` | none | validate, partition | `PlanGraph`, `ReviewPartition` |
| Git, GitHub, Azure DevOps | `internal/git`, `internal/github`, `internal/azuredevops` | worktrees, the tracker | process and network I/O | what their callers observe |
| CLI, web UI, prompts | `internal/cli`, `internal/webui`, `internal/prompt` | none that matters here | presentation | no |

**How they interact.** The polling loop drains the journal of a run, then lets the progression of that run take steps.
Each step reads the run row, decides, and ends in at most one journaled effect or one agent start. Commands from issue
comments and the lifecycle of the issue itself come in through the same mutex, `commandMu`, so within a coordinator one
operation at a time works on runs. Beside the coordinator, `factory issue` claims, and `factory draft-pr` and `factory
retry` act, without its lock: they share rows, worktrees and commit statuses with it. Ideation sessions have their own
inbox: a command is accepted into it by the web UI or the CLI and executed by the coordinator; cancel is the exception and
is applied at once, beside whatever runs. An agent is a detached process in a container, started with `docker exec -d`,
observed through a state directory, and survives the coordinator.

**What is hard.** The process may stop, or a host call may time out, between any two boundaries; a call whose answer is
lost may or may not have happened; a row read before a replay may be used after it; the tracker has no transactions, no
uniqueness and, for lookups, no complete answers; a person may cancel, retry, abandon or reconcile at any moment; a lock
file can be unlinked under a process that has opened it; a status may be written by a helper that no longer holds the lock
under which it read.

**What makes each part correct.**
- Journal: nothing external is repeated that must not be, nothing is acknowledged that is not durable, every reservation
  is resolved, and the issue never silently disagrees with the stored run.
- Store: gate results belong to the packet they were computed for; a processed command stays processed.
- Recovery: a run whose projections do not match it stops for a person instead of going on.
- Gates: a run moves on only from a suite that really ran, at this checkpoint, and is stored and published; only what an
  agent can repair goes back to it; the onboarding proof and the run judge alike.
- Progression: delivered code sits on tests a red run confirmed; what the coordinator starts by itself is bounded; no run
  stays active with nobody working on it.
- Review: every unit of both axes is reviewed once and none of their findings is lost; the concurrency ceiling, the fan-out
  and the repair budget hold; only what passed leaves draft.
- Host: one coordinator at a time, a heartbeat that tells the truth, no worktree or container without a run and no live run
  without its worktree.
- Publication: no item twice, none forgotten, dependencies first, "published" only when complete, no write after a cancel,
  no session left publishing.
- Sessions: one role per command, an approval that names what is published, nothing added after the end, no role process
  left behind, an outcome for every command.
- Workers: at most one native process per invocation, none after a confirmed cancellation, no command that outlives its
  termination.
- Pure parts: a report that is accepted can be stored; a diff is split without losing or repeating a change; a plan is
  refused for a cycle exactly when it has one, and what a person approves is what is published.

## 2. Modules

| module | contents |
|---|---|
| `EffectJournal` | the journal of one run with the store, the recovery pass, the tracker, git and the harness as the journal sees them |
| `ReservedTransition` | the promise of the journal, abstractly: store, issue and intent |
| `EffectJournalProofs` | type correctness, every safety property of the journal, and the steps of the refinement |
| `GateSuite` | gate suites of one run by two processes, what the run decides from them, and the onboarding proof |
| `GateSuiteProofs` | type correctness and every property of the gates |
| `RunProgression` | one run from its baseline to its draft pull request |
| `RunProgressionProofs` | type correctness and every safety property of the progression |
| `ReviewRound` | the review of one change, from a delivered checkpoint to a ready pull request or a wait for a person |
| `ReviewRoundProofs` | type correctness; every safety invariant and action property of the review |
| `CoordinatorHost` | the processes of one checkout: start, stop, issue, cleanup, reset, and the local resources they share |
| `CoordinatorHostProofs` | type correctness and every property of the host |
| `IdeationSessions` | one ideation session: inbox, session row, roles, and the threads of the coordinator |
| `IdeationSessionsProofs` | type correctness and every safety and action property of the sessions |
| `PlanPublication` | one approved plan: inbox, running command, ledger, receipts, session, tracker |
| `PlanOrder` | the order of operations as a pure function, and the reference definition it must meet |
| `PlanPublicationProofs` | type correctness and every safety invariant of the publication |
| `HeadlessProcess` | the detached process of one invocation, its helpers, and the worker commands that watch it |
| `HeadlessProcessProofs` | type correctness and every safety property of the worker |
| `PlanGraph` | a draft plan from its validation over the preflight of a tracker to the order of its publication |
| `ReviewPartition` | the split of a diff into review units, and the reference definition it must meet |
| `ReportContract` | what a report may say, as the worker's command and the coordinator judge it |
| `RunProjection` | which reports the coordinator admits, the row each one becomes, and what the store holds |
| `ReportRoute` | the way of one report from the worker's command over admission to the row, and of an axis to its aggregate |
| `ReportCases` | the reports, runs and worktrees over which that way is explored |
| `MC…` | for each of these, the constants TLC needs that a configuration can not write down |

The modules meet where one hands over to another and are composed by assumption, not by one product: an operation that is
several actions in one module is one action, with all its outcomes, in the modules that use it. `RunProgression` takes a
suite's decision from `GateSuite`, one journaled effect from `EffectJournal`, and the answers of a launch from
`HeadlessProcess`; it ends where `ReviewRound` begins; `IdeationSessions` hands an approved plan to `PlanPublication`. What
a report says is one verdict in the modules with state, and the subject of `ReportContract` and `RunProjection`.

### EffectJournal

`run`, `results`, `evaluated` and `invocation` are rows of the store; `pending` is the pending-effect row; `issue`, `code`,
`worker` and `native` are the outside world: label and comments, HEAD and remote and pull request and commit statuses, the
container, and what the harness process was told to do. `op` is the operation inside the coordinator.

Every effect kind is a *plan*: the sequence of boundaries its `Apply…` function crosses (`ApplyPlan`) and the one its
replay crosses (`ReplayPlan`). Each boundary is one action (`Reserve`, `ReplaceLabels`, `PostStatusComment`, `SaveRun`,
`PushOnce`, `Count`, `Resume`, …, `Clear`), and `op.at` says which comes next. The plans are the order of the code:
`before` is a transition whose save precedes the labels, `persist` a pull request that also moves the run. `Begin…` are the
callers, one per kind of operation that reserves; each builds the next run the way its caller does. A caller may hold the
row it read or the run that a finished pass returned (`HeldRuns`), because that is what the code passes on.

`Interrupt` drops `op` between any two boundaries; a lost answer is the case in which the boundary was crossed.
`StartReplay` is the drain at the start of every pass, `Diagnose` the comparison after it, `PauseForRecovery` its two
outcomes (a published transition, or a plain save when there is no comment or the issue can not be read),
`PauseRunLocally` the answer to a replay that fails, `PauseForHarness` the answer to a refused native resume, and
`Abandon` the command of a person. `BeginTerminal` does not require a drained journal, because a long-lived process does
not drain it there (section 6).

### GateSuite

`policy` is the frozen packet: blocking gates, dependencies, setup, the markers of the issue. `suites` is the suite each
process has under way with the calls it made and the failures it joined; `rows` and `host` are the stored results and the
commit statuses by phase and checkpoint; `run` is the row both processes write with a revision guard. A suite is setup,
one action per gate with every way its command can end, publication, save, and then the decision of the phase: baseline to
implementation, failed or waiting; checkpoint to draft, back to the agents, or a wait. `ready` is the final look at the
rows. The result rows and the statuses carry no revision, so the second process can overwrite either. `passes` and `setups`
are history variables: which command really exited 0, and which checkout was really prepared.

### RunProgression

`run` has the columns the progression before the draft reads; `row` is the latest invocation row, `journal` a reserved
native resume, `worker` and `agent` what runs in the container, `tests` the version of the test files in the worktree and
`red` the versions a red run confirmed. `op` is the coordinator's operation at its next durable write or worker call, and
`coord` whether the coordinator is up. `Coordinate` is the whole coordinator, in the order of `progressionStep`: launch the
role of the stage, observe, resume once, accept a report and route it through the workflow registry, run the suite (one
action with the outcomes `GateSuite` allows), repair, revise a disputed test, stop. `AgentReports` and `AgentTampers` are
the agent, `Failing` is stops, dead agents and failed calls, `Commands` the maintainer's answer, exemption, repair, retry,
resume and cancel. `runs` counts repair and revision sessions, `row.calls` automatic continuations: history variables
beside the counters the code keeps, because the properties compare the two.

### ReviewRound

`run` has the columns of the run row a review reads and writes; `round` and `results` are the review round and the unit
results of the current checkpoint; `sessions` and `impl` are the reviewers and the implementer with their invocation rows;
`effect` is the reserved acceptance; `pr`, `code` and `host` are the pull request, the checkpoints and the host
configuration. `step` is the operation the coordinator has begun. The coordinator is one loop under `commandMu`, so there is
one `step`; each of its actions ends with one durable write or one external call, and `Crash` may fall between any two.

What the idle coordinator begins follows the order of `driveRun` and `progressionStep`: fill the round
(`StartReviewUnit`), else retry readiness, else the operation of the stage. A launch is `LaunchReviewer` (plan and
manifest), `PrepareReview` (fan-out), `StartReviewer`, `CommitReviewer`. An acceptance is `ReserveAcceptance`,
`RecordResult`, `SaveRun`, then the dispatch `MarkRound` and `ProjectReview`, which ends in a wait, in `RouteReviewRepair`
or in the readiness `CheckHead`, `RemoveDraftFlag`, `RejectUnreviewedHead`, `PersistReady`. A restart replays the effect
(`StartUp`), rebuilds lost aggregates (`RecoverAggregate`) and reconciles (`Reconcile`). `LaunchFails`, `WriteFails`,
`ImplementerFails` and `ImplementerRateLimited` are the error paths.

Abstractions: an assignment identifies its session, because at most one invocation of it is active; a finding is its
materially-same key; a deadline is a choice (`Expire`); `Reconcile` does not look at the projections themselves, after a
stop they may agree or disagree; an answer, a repair command and the delivery of a new checkpoint are one action each,
because what happens inside them is the subject of `EffectJournal` and `RunProgression`. Startup leaves out the automatic
resume of a lost session, which `RunProgression` has. `auto`, `sent` and `resent` are history variables about automatic
repair sessions.

### CoordinatorHost

A lock file is an inode: `path` is the one linked at the lock path, `flock` and `owner` are who holds it and whose number
is written in it, so that a process may hold a file that is no longer the lock. `beat` is the heartbeat row, `runs`, `of`
the run rows, `txn` SQLite's write reservation, `tree` and `box` the worktrees and worker resources, `issue` GitHub.
`proc` says where each process stands. A `factory start` takes the lock, writes its number, opens the store, renews,
claims, observes and stops; `factory stop` probes, signals and waits; `factory issue` claims without the lock; `factory
cleanup` and `factory reset` plan first and remove afterwards, so their plans go stale. A claim is its whole sequence
(select, worktree, row, label, publish), with the way back of a claim that fails.

A process runs once and stands for its process id. `hist` keeps what the code can not or does not prevent: a lock file
unlinked under an opener (`orphan`), a process that ended without a last renewal (`silent`), a worktree that a claim could
not remove or was killed over (`lost`), a claim beside the end of a reset (`late`), a row kept although its worktree was
removed (`gone`). The properties say that nothing else goes wrong; section 6 says what these five are.

### IdeationSessions

`sess`, `plans`, `turns`, `approvals` and `receipts` are the session as stored, `inbox` its commands, `invs` the role
invocations; `snaps`, `box`, `proc` and `report` are the resources of a role. Three threads share them: `loop` drains the
inbox, `bg` is a tracker command beside it, `poll` the reconcile pass; `task` is what runs under `commandMu` for any of
them. Every write carries the revision that was read. A handler that reads at the revision its command names and then
writes is one step, because a writer in between makes it answer as one before it does; every other read (launch,
observation, publication) is a step of its own. `Process(v)` is the detached role, `Fault` a call that fails or a worker
that is lost, `Stop` the end of the coordinator between any two steps. A second turn of a role continues its native session
at the interface of the runtime, where it may succeed; what the worker does with that is a finding of `HeadlessProcess`.

### PlanPublication

`ledger`, `receipts`, `session` and `inbox` are store rows; `job` is the command the coordinator executes, with the stage
it stands at and the session state it read (`saw`); `items`, `late` and `links` are the tracker. Every store transaction
and every tracker call is an action. `Claim` and `Complete` are the dispatcher, `Publish` … `RecordReceipt` the pass,
`SettlePublication` what Interrupt does for a command that ends without success, `Reconcile` … `RecordReconciliation` the
decision of a person about a create of unknown outcome. `CreateUnknown` covers a create that was applied, was not, or will
be later (`Deliver`); `Found` covers a lookup that reads only the newest items (`BoundedLookup`, the 1,000 newest issues
in `internal/github/plan.go`).

Simplifications, each because of a fact of the code: a revision conflict is a state that differs from the state read,
because beside the running command only a cancel writes the session and it changes the state; the copy of the ledger in
memory is the stored one, because the running command is its only writer; approve-and-publish is a publish whose approval
is already recorded. `misjudged` and `writesAfterCancel` are history variables: creates for which a person confirmed an
absence that was none, and reservations made although the session was already cancelled.

### HeadlessProcess

`coord` is the coordinator's operation, one at a time, which may stop at any point; `runner` are the `run` helpers, each
started with `docker exec -d` and therefore possibly late; `child` the native process of each; `cmds` the worker commands
`inspect`, `cancel` and a gate, each with its supervisor, its record and the terminator the coordinator sends after it;
`file` and `lock` are the state directory, `box` the container, `row` the invocation row. `run` and `cancel` read and
reserve under the lock, `inspect` reads without it, and the record of an end, of a lost process and of a living one are
written after the lock was released: `RecordEnd`, `MarkLost` and `MarkAlive` each compare nothing. `late` becomes true when
such a write replaces a state that is not the one it was derived from, says "lost" over a recorded end, or says "running"
of a process that is dead. `Client` is the serial caller, `Container` a container that stops, restarts or is removed, with
the possibility that a recorded process number then belongs to a stranger.

### PlanGraph

`draft` is a plan somebody submits, `problems` what validation reported and `preview` what a person sees before the
approval: items, links, and the ledger a publication will execute. `RefuseDraft` and `StoreDraft` are `plangraph.Validate`
with the store's own checks, `Preview(t)` the preflight of the GitHub or Azure DevOps adapter, which maps kinds to levels,
inserts the intermediate work items of a process and checks fields, permissions and links, and then the rendering of
`publication.go` with the order of `PlanOrder`. A text is a class (fits, quotes the factory's marker, too long for a
tracker). The depth-first search that finds canonical cycles is written as the code runs it; the properties compare it with
the definition of a cycle.

### ReviewPartition

The partition of `internal/reviewunits` as operators: lines, hunks and files are sizes and kinds, bytes are numbered, a
fragment is a set of bytes with the lines it owns. `IsPartition` is the reference: every changed line is the primary of
exactly one unit, in which it can be read with its headers, every byte is in a unit, no unit is larger than its limit;
`CannotFit` says which diffs may be refused. `BuildManifest` is the first launch of a round, `LoadUnit` every later one,
and `UnitsCoverTheDiff` compares what they hold with the reference, on diffs with hunks whose header can not be parsed and
files without lines.

### ReportContract, RunProjection, ReportRoute

The same report is judged three times: by the command of the worker, which knows only the report
(`WriteAtomicForInvocation`), by the coordinator, which also knows the invocation, the worktree and the frozen packet
(`Validate` under `acceptanceValidationContext`, `AdmitReport`), and by the store, which knows only the row
(`normalizeRun`, `validateReviewUnitResult`). A text is its length in characters and bytes and whether it is blank or has a
line break, a path its components, a list its entries. The limits are the numbers of the code. `projectAcceptance` builds
the row for each of the six roles; `aggregateReviewUnitResults` builds that of an axis from its units.

`ReportRoute` sends a report this way: `WriteReport` in the worker, `Accept` in the coordinator against a run and a
worktree, `CollectAxis` for the results of an axis. `ReportCases` takes a proper report of each role and changes up to two
of its parts, against five runs and eight worktrees. `AcceptedIsStorable`: what is written and accepted can be stored,
except in exactly four named cases (section 6), what the worker's command refuses is never acceptable, and the units of an
axis add up to a storable result or go to a person.

## 3. Runs

| run | shows | bounds |
|---|---|---|
| `journal_issue` | the tracker side: transitions, commands, packet changes, questions. `ProjectionsFollowRun`, `NothingCreatedTwice`, `ResultsMatchPacket`, `AcknowledgedIsStored`, `ReservationResolved`, and the refinement `KeepsPromise` | revisions ≤ 3, two packets, two interruptions, replayed calls do not answer with an error |
| `journal_work` | checkpoint, push, status, pull request, launch, native resume, acceptance. `CodeFollowsRun`, `HarnessActsAsStored` | revisions ≤ 3, two checkpoints and two manual resumes, two interruptions, replayed launches, resumes and acceptances may answer with an error |
| `gates` | `ReadyIsEarned`, `ProofPredictsReadiness`, `SuiteDecidesOnEvidence` | two gates, two processes, two checkpoints, one fault |
| `progress` | `DeliveredTestsAreProtected`, `AutomaticWorkIsBounded`, and the liveness `RunSettles` | four packets, two disputed tests, two turns back, two faults, two commands |
| `review` | `ReviewedOnce`, `ProjectionsAreAggregates`, `UndraftedIsReviewed`, `BlockerRepairedOnce`, and the liveness `ReviewSettles` | two units per axis, fan-out 1, a ceiling of 1 or 2, budget 2, two blockers, two checkpoints, one fault |
| `coordinator` | `OneCoordinator`, `HeartbeatHasOwner`, `ResourcesFollowRows` | two starters, the four operator processes, one issue, two runs, two lock files, one fault, three commands |
| `sessions` | five safety properties of a session | all eleven command kinds, three beginnings, two commands, five invocations, one fault, one stop |
| `sessions_live` | `EveryCommandAnswered`, `EndedIsReleased` | submit, approve and cancel from a brief, two commands, four invocations, one fault, one stop |
| `plan_safety` | four safety properties of the publication and the liveness `PublishingEnds` | one item that needs another (three operations), two commands, two stops, three starts per command, bounded lookup |
| `worker` | `ProcessIsAccountedFor`, `CancelledCommandsAreAlone` | two run helpers, two worker commands, one fault, first and continued sessions |
| `documents` | `CyclesAreReported`, `PreviewIsThePlan`, `UnitsCoverTheDiff`, `AcceptedIsStorable` | every graph of three items, every dependency of a parent, two children and an outsider, one draft per other rule; 14 GitHub and 16 Azure DevOps targets; diffs of two files, two hunks and four lines; reports with two changed parts, five runs, eight worktrees |

`worker_continuation` is the run that must find a violation (section 6). `TypeOK` of every module with proofs is a theorem
and not checked again; the others are there for the reader and were checked while the modules were written. So is
`OversizedIsAuthorized` of `ReviewRound`, which the theorem `OversizedAuthorized` proves.

**Why the bounds are enough.** The journal has one reservation at a time and forgets it when it is cleared, so what can go
wrong involves one effect, its interruption, and the effect after it. Three revisions are the claim, one effect and the
next one on top. Two interruptions are a stop in an apply and another in its replay: a third would meet a state a replay
already left behind once. `MaxCount` 2 gives an old and a new packet, checkpoint and resume.

For the gates, two are what a dependency and a mix of a blocking and an advisory gate take, two processes what a race over
rows takes, and two checkpoints what a stale row takes. For the progression, two turns are a revision and a repair after
it, two faults are a stop and another one in its recovery, and two disputed tests are an objection and a different one
after it; the packets cover the three workflow routes, required and optional tests, both exemptions, and automated and
human disputes.

For the review, two units per axis are what it takes for units to finish out of order and for an aggregate to hide one; a
fan-out of one makes the second unit need authorization; two blockers and a limit of one finding make an aggregate that
exceeds its limit; two checkpoints are a review and the review of its repair. One fault, a stop, failure, expiry, foreign
push or reconfiguration at any point, is what the state space allows at this size; with one unit the same properties hold
with three.

For the host, two starters with a stop and a reset are the smallest set in which a lock file changes hands while somebody
has it open, and the second inode is the file created after the unlink. For the sessions, five invocations allow a role, its
continuation and the roles of a second command. For the publication, the linked plan has an item, an item that needs it and
a relationship that needs both, so each ordering rule can be broken; two commands are an attempt and its retry or
reconciliation; two stops interrupt both, and a command is then started at most three times. For the worker, two run helpers
are a launch and the launch that replaces it, two commands an inspection and the cancellation beside it; the same invariants
were also explored, not to the end, with two faults.

**Errors** is the set of effect kinds whose replayed calls may answer with an error that is no host timeout. It is empty in
`journal_issue`, because with `state_transition` in it `AcknowledgedIsStored` fails: the local pause of section 6.

**Pure functions** are compared with their reference in the states that hold their results. The run `documents` takes one
draft, diff, report or axis at a time through its modules; they share no state and are only put side by side. `PlanOrder`
has no state of its own: it is compared with `IsPublicationOrder` for all graphs of up to three items and two relationships
(`OrderAssumption` in `MCPlanPublication`): an acyclic graph is ordered exactly as the reference demands, a cyclic one is
refused. `ReviewPartition` is compared with `IsPartition` for diffs of up to two files, two hunks and four lines, under
limits from below one headed line to above most files (`UnitsCoverTheDiff`). For reports, two changed parts are what it
takes for a limit to depend on something else in the report (an objection and its files, an outcome and its handoff); lists
have the lengths at each limit and one above, and the five runs are a fresh one, one in the last revision of a dispute, one
after another dispute, one with an open objection and 256 protected tests, and one that waits for the other axis.

## 4. Fairness

- Journal: `WF(Step)`: an operation that has started runs on unless the process is interrupted, and interruptions are
  bounded. `SF(StartReplay)`: every polling pass calls the drain before anything else (`factory/progression.go`,
  `recovery.go`); strong, because a pass that finds the mutex taken comes back, while other operations come and go between.
  Nothing is assumed about callers, people or abandonment.
- Publication: `WF(ClaimSome)` and `WF(JobStep)`: the inbox is drained every second
  (`internal/cli/session_commands.go:294-331`), and a claimed command runs on unless the process stops. Nothing is assumed
  about people, about late creates, or about which pending command a pass picks.
- Review: `WF(Coordinator)` for the loop as a whole, because polling takes whatever step is enabled, and `WF` of the report
  of a reviewer that runs, because a session ends with a report, or passes its deadline, which is a fault. Nothing is
  assumed about people, the implementer or the world.
- Progression: `WF(Coordinate)` and `WF(AgentReports)` for the same two reasons. Tampering agents, faults and people are
  bounded and not assumed to act.
- Sessions: `WF(Commands)` for the command loop and `WF(Beside)` for the tracker command beside it; `WF(Launch ∨ Release ∨
  Pass)` for the polling loop and for an operation that holds `commandMu`; `SF(StartRole)` and `SF(CancelRole)`, because the
  command loop waits for a mutex that the poll takes and returns again and again, and Go's mutex hands over to a waiter;
  `WF(Process(v))`, because a role process ends or is stopped at its deadline.
- Gates, host, worker and documents: safety only. A suite, an operator process and a helper may stop anywhere for ever.

`CHECK_DEADLOCK FALSE` where the system rests: a run that is ready or waits for a person, a session with nothing to do,
host processes that have all ended, a container that was removed, suites that were all used up, and a plan that was refused
or previewed.

## 5. Proofs

All theorems are for every value of the constants under the named assumptions of the modules (`KindsAssumption`,
`StatusAssumption`, `BoundsAssumption`, `ErrorsAssumption`; `PlansAssumption`, `LookupAssumption`; `UnitsAssumption`,
`HostAssumption`, `LimitAssumption`, `ReportAssumption`, `BoundAssumption`; `GateAssumption`; `ProcessAssumption`;
`SessionAssumption`; `ProgressionAssumption`). They state the types of the constants, that a plan of `Plans` is a ledger
plan, that a run has at least one of what it needs; a hypothesis beyond them is named with the theorem.

**Journal.** `TypeCorrect` proves `TypeInv == TypeOK /\ ResumeTargets`: the type alone is not inductive, because a
reservation's resume target must be at least one for its rollback to stay a number. Type correctness includes that an
operation always stands at a boundary of its plan, which every later proof uses to know what comes next.
`NeverCreatedTwice` proves `CreatesOnce`, the per-place counters; the interesting case is the status comment, where a claim
may create it only if none exists. `ResumesReserved` and `FinishedOnce` prove `HarnessInv == ResumeInv /\ FinishInv`, and
`HarnessFollowsStore` combines them into `HarnessActsAsStored`, the property the run checks. The first says that between the
saved counter and the native call exactly one continuation is outstanding, and none anywhere else; the second that the
harness was told to finish only if the invocation is no longer active, except at the one boundary in between. Both are
needed because neither property is visible from the counters alone: it depends on the boundary the operation stands at, and
on the fact that an interruption at that boundary leaves the counter ahead.

The properties that relate the stored run to the outside rest on `JournalInv`, whose new parts are:

- `RowInv == Reserved /\ Progress`: what a reservation is worth. `Reserved` says of the pending row alone that the stored
  run is still the one it was reserved from or already the one it leads to (`Stands`), and that HEAD is the checkpoint
  before or after it. `Progress` says the same of the operation under way, boundary by boundary: which boundaries lie
  behind its place (`MadeAt`, `LabelledAt`, `CommentedAt`, `StoredAt`), hence how final its row is (`Nearly`).
- `ShowInv`, unless a person abandoned the run: a published run has its comment; where no effect is about to change it,
  labels and comment show the stored run; the branch, the pull request and the checkpoint are those the run names, but
  between making one and storing it.

`IssueFollowsRun`, `CodeFollows`, `ResultsBelong`, `StoredBeforeAcknowledged` and `PromiseHolds` follow. The last is the
refinement of `ReservedTransition`: initial states map to initial states and every step to a step or a stutter. Its steps
are not visible from types: that a replay acknowledges only what is stored is `Progress` at the boundary `clear`.

All five assume `MovesFailByTimeout`: a replayed call of an effect that moves the run fails for a host timeout or not at
all. It is an assumption about the constant `Errors`, and without it four of the five are false, as TLC shows (section 6).
The code does nothing to justify it; it separates what the journal guarantees from what the local pause of a failed replay
breaks. Creation, resumption and finishing need no such assumption, and `journal_work` checks `CodeFollowsRun` beyond it,
with acceptances that fail.

**Publication.** `TypeCorrect` proves `TypeInv == TypeOK /\ CommandsKnown /\ JobKnows`: a ledger, once planned, has one row
per operation, and a job about an operation is about one of the plan. `ItemsCreatedOnce` and `ItemsNotForgotten` come from
one invariant, `OnceInv == Counted /\ CreateIsFirst /\ ResolveDecides`: what the tracker holds is bounded by what the row
admits; a job about to create has reserved the row and nothing was made before; a row is called absent only by a
reconciliation. They are proved together because neither is inductive without the other: a create is only safe if its row
says so, and a row only says so if every earlier create was recorded. `CancelStops` proves `CancelInv`: a write is counted
only by a job that had passed the check, and such a job passes no second one.

`PublishedComplete` and `NeedsFirst` come from `OrderInv`: what a row says succeeded is in the tracker (`RowsTrue`), an
operation was made only after every earlier one was recorded (`MadeInOrder`), a job carries that from the check to the
record (`JobInOrder`), and a published session has a receipt for all of it. The steps are short because of one lemma about
all of them, `Grows`: no step takes back a recorded row or what the tracker holds, which is what the guard `SettledChange`
of the store is for. That later operations of the plan need only earlier ones is the assumption about `Plans` that
`MCPlanPublication` checks of `OrderOperations`.

**Gates.** `GateTypes` is type correctness. The other three rest on `GateInv`, which says of every suite that is under way
that its record explains itself. Its results, its failures and the commands it recorded are three views of one walk over the
gates: gates are taken in order (`TakenInOrder`), every failure has its result and every bad result its failure
(`Explained`), and the commands are those of setup and of the gates that ran, in their order (`Recorded`), so that the
command of a gate is found by counting the gates before it that ran (`CallOf`). What passed really ran there, after a setup
that did (`Prepared`, `Earned`), and so for the stored rows, whichever process wrote them (`RowsEarned`). `Readiness` needs
only these last. `EvidenceDecides` is an action property: the decision of a phase follows from the record, the record from
the walk. `ProofIsThePromise` compares two walks, the one of the onboarding proof and the one of the run: where nothing was
cut off, a passing proof gives a suite the run passes and readiness accepts, and the other way round.

Two of these need an induction over gate numbers: that a dependency plan, a recursive function, is closed and in range, and
that the position of a gate is its count. `EveryNumber` is that induction stated for sets, without an operator parameter: a
set of numbers that has zero and every successor is `Nat`. It is proved from the library's theorem about well-founded sets,
and recursive *functions* are then unfolded at a point.

**Host.** `HostTypeCorrect` proves types and that every process stands where its command can be. `CoordinatorsExclude` and
`HeartbeatOwned` come from `LockInv`: who is at a place that needs the lock holds the file it has open and is its owner
(`LockHeld`); until a reset unlinks it, everyone has the same file open (`OneFile`); who renews wrote the heartbeat
(`BeatHeld`). `ResourcesAgree` comes from `HostInv == LockInv /\ OnlyOperatorsCut /\ Resources`. `Resources` is stated run
by run (`RunOK`): at most one claim is about a run (`ClaimedOnce`) and has made exactly what it is past (`ClaimOwns`); a
cleanup and a reset know what they planned against and that the plan may be stale (`CleanupKnows`, `ResetKnows`); a row has
its worktree, and a worktree or container its row or its claim, but for what `hist` names. A step is about at most one run,
and one lemma, `Apart`, keeps `RunOK` for all the others; a reset, which is about all of them, and `Stop`, which drops
every descriptor, are proved by themselves.

**Sessions.** Everything comes from one invariant, `SessionInv` (`SessionSafety`). Three threads, the command loop, the poll
and a tracker command, write the rows in turns, and what they read before a turn is used after it; so the invariant says
what each of them still knows.

- `HoldInv` is about `commandMu`. The operation under the lock belongs to the thread that waits for it (`Holder`), its
  invocation is unborn, active or ended as its stage says (`About`), and a pass knows that nothing but the row it saw
  active is active while it cleans up the rest (`PassKnows`). At most one row is active, and no active one is released.
- `PinInv` is about revisions. A row is pinned to the revision its start made or an older one, and to the current one only
  while the session is `role_active`; likewise what `approve` and a publication read before they write. A guarded write
  therefore either fails or finds what its reader saw. `ApprovalBinds` needs this for the read of the brief and the plan
  before an approval.
- `TriggerInv` is about the inbox: a row's trigger was begun, and a command that is begun for the first time, or whose row
  is still to be inserted, has started none. A command that is begun again looks first. `OneRole` follows.
- `LiveInv` is `NoOrphanProcess` with what makes it inductive: a cleanup that found its worker stopped is right about it
  until it marks the row, or an active row of that role answers for the worker (`Cleaned`).

Types are needed throughout: that an event leads where the table says, from where it is allowed (`Leads`), is a lemma about
the whole table, and that a step adds commands and never changes one (`Extends`) and advances the revision with every write
of the session (`SessionGrows`) are proved of every action together with its types. `FrozenWhenClosed` and `WorkerKept` are
action properties of the same invariant: an invocation pinned to the current revision finds its session `role_active`, so no
report reaches a closed one, and a pass stops the worker of an older row only where the row it takes for active is the
active one (`PassKnows`) and has another role.

**Worker.** `HeadlessInv` (`HeadlessSafety`) says what the coordinator, the helpers and the worker commands know of one
another. Nobody sees more than the state directory, so the invariant ties it to what is true:

- `RunnersInv`, `CoordInv`, `BoxInv`: a helper at or past its reservation and before its release is the holder of the lock,
  a recorded process number belongs to a helper that recorded it, the coordinator waits for the one command it sent, and in
  a container that does not run there is nothing but the records of ended helpers and failed commands.
- `AloneInv` is about `superviseCommandScript`: a command was let in only when no cancelled one had a leader, and a
  cancelled one does not come to its body afterwards, because its leader looks for the cancellation after it recorded its
  group. `CancelledAlone` follows, without any assumption about late writes.
- `LivingInv`, a living process holds the lock or is the one the state names, gives at most one of them. It is what the
  three writes without the lock can break, and holds until one of them is late.
- `FreshInv` is about a session the coordinator never knew, where nobody may replace a process. A state that names one that
  ended with its container (`Stale`), and so may come to say `lost`, is never met by a first start: no helper is on its way,
  no launch is decided and no inspection that found nothing is unanswered. A cancellation that found nothing leaves a
  reservation behind for every helper still to come (`Barred`), and keeps it until something is started again. Both are
  needed together: a helper takes a `lost` state for free, so `Barred` is an invariant only because `Stale` is.

`ProcessAccounted` is the conjunction, under the condition of the property itself that no status was written late.

**Run progression.** Everything comes from one invariant, `ProgressionInv` (`ProgressionInvariant`), which TLC checks on the
constants of the run `progress` as well. It has a part about where things stand and a part about what was paid for.

- `InvocationInv`, `OperationInv`, `RepairInv` say where a step of the coordinator finds the run and its invocation: an
  agent that works belongs to an active row without a report; a launch has a row of the run's stage; an accepted report has
  none that is active; a reserved resume has a session nobody works in; a repair has an attempt left in the budget. An
  idle coordinator knows the session of every active row whose agent was ever called: only a stop can come between the two,
  and a restart asks the harness for it first (`RecoveredIs`). A failed run has no active row and no open objection, which
  is why a retry begins nothing that was not already due.
- `DeliveryInv` is what `DeliveredTests` needs: the delivery's check compared the protected tests with the worktree, and
  from there to the draft pull request no agent is active, and none lingers. The handoff itself is of a version in `red`,
  and a packet change empties both.
- `RepairsInv` and `RevisionsInv` are accounts. A repair session that may still begin (`RepairDue`: a repair at its start,
  or a repair's active row that was never continued) is already paid for by an attempt or a fault, and by an open attempt
  or with one to spare; a revision that the coordinator may still begin by itself (`RevisionDue`) by a try of its dispute
  or a fault. Starting a session uses the credit up, closing an attempt moves it, and a stop between a repair's row and its
  reservation is what the faults in `RepairsAreCounted` pay for. The bounds of `BoundedWork` alone are not inductive: they
  do not tell a repair that is due from one that had its session.

**Review.** `TypeCorrect` proves `TypeInv == TypeOK /\ UnitKnown`: a launch past its first stage and an acceptance know
their unit, without which they would touch a slot that is no assignment. Everything else comes from one invariant, `Inv`,
whose parts only hold together (`Invariance`):

- `RoundInv`: reviewers belong to the round and have no result yet; a launch under way is about such an assignment; a
  reserved acceptance is under way or waits for the restart, and its report is stored or its reviewer still runs; nobody
  reviews while the change is implemented. `UnitsReviewedOnce` and `ReservationStays` follow.
- `VerdictInv`: the projections are aggregates, a complete round has every result, and the coordinator still stands by what
  it found when it chose its stage: before readiness the run passed, before a repair it is complete, an axis that is being
  accepted has no projection yet. A repair decision may send the run back to implementation only because a complete run
  has no reviewers left, so `RoundInv` needs this part, and `UndraftedReviewed` needs both: a passed run has a clean
  projection for each axis, which hides no unit.
- `FanOutHeld` and `RoomKept`: what a launch compared still holds when its reviewer starts, because nothing else makes
  reviewers or shrinks the ceilings meanwhile. `CeilingHeld` compares cardinalities, for which the reviewers are shown to
  be finitely many.
- `RepairInv`: the blockers of a reservation are remembered before they are sent, and while it is reserved nobody got them,
  or the one adopted session that works on them, beside which no other one is launched. This is why an uncounted repair
  (section 6) passes the budget and still repairs no blocker twice (`RepairedOnce`).

**Only model-checked.** Liveness under fairness, and ENABLED, are out of the prover's reach: `ReservationResolved`,
`PublishingEnds`, `ReviewSettles`, `RunSettles`, `EveryCommandAnswered`, `EndedIsReleased`. So is every module that declares
or reaches a RECURSIVE operator: what `PlanGraph` says of the validation, the preflight and the order of a plan, and that
`OrderOperations` meets its reference. What `ReviewPartition` says of the split, and `AcceptedIsStorable`, quantify over
documents that are built by folds; a proof would be one induction per fold.

**What the proofs changed in the models.** Overlapping arms of a `CASE` have no defined value, and TLC takes the first; the
prover does not. `summarize` (`GateSuite`), `packetResumeStage` (`RunProgression`) and `AxisOutcome` (`RunProjection`) had
such arms where the code is a chain of `if`s, and now are chains. `TypeOK` of `CoordinatorHost` was too weak to be an
invariant of anything and now names every field and every place, and those of `IdeationSessions` and `HeadlessProcess`
name their record sets; that of `HeadlessProcess` now covers every place, and that of `RunProgression` every field, with the
operations at their boundaries.

## 6. Findings

One run shows what a document says and the code does not do, `worker_continuation`: a native session that is continued in a
*new* invocation is refused. The state directory is per invocation, so the resume of a test revision, a check repair, a
review repair, an interrupted implementation or a second ideation turn finds no state and is answered "unavailable"
(`worker/headless.go:168-171`; `docs/agent-runtime.md:304` and `:653` describe the continuation). The fakes of the unit
tests accept it.

The following were met while the code was read and modelled. They have no run of their own; where a property had to be
restricted for one, the restriction is named.

*Journal and recovery.* A replay of a transition that fails for another reason than a host timeout pauses the run in the
store at the revision the pending transition reserved (`recovery.go:1593`). The next replay takes that for its own save,
skips it and clears the row (`state_transition.go:179`, `:210`): the reserved status was acknowledged and never became
durable, against the comment at `state_transition.go:21-23`. It is what `AcknowledgedIsStored` finds under the constants of
`journal_issue` with `Kinds = {"state_transition"}`, `TargetStatuses = {"failed"}` and `Errors = {"state_transition"}`.
`CodeFollowsRun`, `ResultsMatchPacket` and the refinement `KeepsPromise` fail in the same way. So does
`ProjectionsFollowRun`, but only with three interruptions (`Kinds = {"state_transition", "harness_resume",
"worker_launch"}`): the replay of a claim fails and pauses the run at the reserved revision without a comment, the next
replay acknowledges it, and a refused resume then parks a run that has no comment to show it. The same pause saves the run
read before the replay, and undoes a processed-comment watermark the replay had stored (`recovery.go:1590`,
`docs/configuration.md:1254`). A lifecycle terminalization in a long-lived process does not drain the journal first and
refreshes an unresolved reservation with its own payload (`lifecycle.go:113`, comment at `lifecycle.go:81-83`; the
definition `NoReservationReplaced` states the opposite).

*Publication.* A cancel between the last read of an attempt and its receipt leaves a cancelled session without the receipt
the documentation promises (`publish.go:134`, `docs/ideation.md:126-128`). A command started once more than allowed, after
its receipt was recorded, can not be settled and stays pending for ever (`dispatch.go:287`, comment at `dispatch.go:15-17`);
`plan_safety` has fewer stops than that takes.

*Review.* A repair whose launch was rate limited is launched again without the flag that counts it, and a session adopted
after a stop is never committed; after a human repair in between, more automatic repairs run than
`retry_limits.review_repair` (`command.go:1037`, `invocation_lifecycle.go:1938-1999`, `docs/configuration.md:946-947`).
Accepting a unit of one axis clears the open questions of the other (`report_acceptance.go:679`, comment at
`review.go:447-449`). The second launch of a round compares only the host ceiling, not the one the round was created with
(comment at `progression.go:581-584`), which is why the theorem `CeilingHeld` excepts it.

*Reports and the store.* Four reports are accepted and can not be stored; each is a case of `NotStorable` in `ReportRoute`.
- A test objection from a session that changed nothing names no file. `report.Validate` admits that in a clean worktree, but
  `projectImplementationTestObjection` (`test_stage.go:434`) keeps the handoff without the guard that
  `agentReportRunProjection` has (`report_acceptance.go:906`), and the store answers "role handoff is incomplete"
  (`store.go:1620`). The effect is refused before it is reserved (`effect/projection.go:51`), at every attempt, although
  `docs/agent-runtime.md:313-322` has the coordinator record the objection.
- An objection beside more than 256 changed paths, because the row keeps them all.
- A review whose summary has up to 2000 characters and more than 4000 bytes. For a whole diff the effect is refused; for a
  unit that check does not look at the unit result, so `SaveReviewUnitResult` refuses after the invocation is terminal and
  the session finished, and every replay is refused as well (`result_acceptance.go`).
- A test revision whose tests, with those already protected, exceed 256: the checkpoint is refused and the run waits for a
  person.

An axis whose units together ask more than 32 questions or show more than 32 pieces of evidence is refused and the run waits
for a person; that is handled.

*Plans.* Validation puts a parent after its children and everything it needs, publication creates it before them. A parent
that depends on one of its own children, or on something that does, is therefore stored and then refused by every preview
with "the relationships form a cycle" (`order.go:49`), although the validation is there to refuse relationships that form
one (`docs/agent-runtime.md:667-669`); `CyclesAreReported` names the exception.

*Progression.* An exemption followed by an answered question leaves an implementation without a test handoff
(`command.go:960`, `:978`, `:1009`; `docs/agent-runtime.md:170-171`): `DeliveredTestsAreProtected` speaks of runs with a
handoff. A test report that was accepted before a stop may be stranded: no later step takes it up
(`report_acceptance.go:305-309`; the definition `AcceptedTestsGoOn` states the opposite). A repair session whose process
stopped before the reservation of its attempt is resumed by the restart, uncounted (`repair.go:667`, the exception in
`RepairsAreCounted`). `/factory retry` after an implementation that can not proceed is refused by the history guard
(`docs/configuration.md:1201`, `docs/agent-runtime.md:493`). A launch row that was rate limited and then meets a restart
is reported as an empty identity, which replaces a resumable pause. A stop between the saved session and the committed
launch leaves the test invocation of the run empty.

*Gates.* A setup failure is let through a baseline by a marker that names a gate, and the setup marker by a failing gate
(`gate.go:562`, `docs/configuration.md:1124-1130`; `SetupFailureNeedsItsMarker`). A pull request may become ready while the
commit status of a blocking gate shows what the second process published last (`gate.go:318-323`; `ReadyShowsSuccess`).

*Host.* `factory issue` is not excluded by the lock: a claim beside the end of a reset loses its row with the store and its
label stays. A start that passed its diagnosis before a reset recreates the store, and after the unlink of a lock file that
a process had opened two coordinators can run. A stop's probe holds the free lock for a moment and can refuse a starter. A
claim that races with `factory issue` ends the coordinator's loop with an error. `/factory retry` after a failed claim
reactivates a run whose worktree was deleted, and a claim that comes late can resurrect a run that was cancelled meanwhile,
because its save is unconditional. `hist` names these, and the properties hold for everything else.

*Sessions.* A role start that fails after its row was stored is retried and then reported as started. A hand-off may be
answered "refused" although the session went through `role_active`. An approve may be answered "conflict" although its
approval had been recorded and was cleared by an edit. A command out of attempts is answered "failed" although its turn is
stored. After a failed stop of an accepted role's worker, a stop of the coordinator during the next launch leaves the old
process running until the newer row is released.

*Worker.* `docs/worker-runtime.md:47-49` lets an exact native resume replace only an exited, cancelled or lost process whose
recorded number is no longer alive. The start does not look at the number of an exited or lost one, and because the end of
a process is recorded without the lock, such a state may belong to a living replacement: a second process starts beside it
(`late` in `ProcessIsAccountedFor`). An inspection may record "lost" over an end about to be recorded; a cancellation then
reserves nothing and a fresh helper still starts. A launch that failed is cancelled, but a helper that replaces a process
and has not yet reached the lock is not stopped by that (comment at `harness/headless.go:308-311`). A resume may take its
session number from the output of the process it replaces. A process number in the state directory carries no boot
identity, so after a restart of the container a stranger may be reported running or be signalled; command records carry
one. A container killed between "starting" and the recorded number leaves "starting" until a cancellation. When docker
fails before the terminator ran, the answer is "unconfirmed" without a record, and later commands are not refused
(`runtime.go:496-499`, `docs/worker-runtime.md:281-290`).

## 7. What is not modelled

- Journal: label transitions (no caller), the direct path of a store without a journal, store migrations, the evaluation
  tables beyond whether they were written, the comparison of mounts and credentials.
- Gates: log files, the git metadata of the worker, the workspace of the proof.
- Progression: the projection of active invocation ids, the cached startup error, `/factory refresh` and revision, the
  ignored error of a rollback's stop, a launch without a session id, a red-test command that rewrites test files, retries of
  host timeouts, the error path of a native repair resume, adoption inside a launch plan, repository-policy rows, the
  refusals of a clean start; a checkpoint is one event, not a number.
- Review: `/factory resume`, refresh and revision, the retry of a failed launch, rate limits of reviewer launches, repairs
  asked for in a pull request review, the synchronization with the target branch, the summary writer, authorizations below
  the manifest size (they are refused). A repair reservation that is half done when its call times out (`repair.go:719`), a
  completion saved from the caller's run (`repair.go:755`) and a Finish that a stop skips (at most once, by design) have no
  property of their own.
- Reports: those of planning sessions beyond the verdict of `IdeationSessions`, the encoded size limit, defect proposals,
  evaluation records.
- Host: the resources of ideation sessions in a reset, credential stores, backups of a migration, preflight of adapters,
  leases on GitHub, a second `factory init`.
- Sessions: the preview and reconcile commands, a snapshot leaked by a launch that stops before its row, kinds of failure
  other than a lost native session, the content of a brief, session events reconciled by the operator, several sessions.
- Publication: the rendered text (one flag says whether it still matches the approval), edits and deferrals of an approved
  session before its first attempt, late creates of relationships, store errors that are not transient.
- Worker: credentials, mounts and policies, the doctor, evidence of a memory limit, the bound of the output, the content of
  events, a stuck command that dies later, the refusal of a wrong image.
- Plan graph: identities and hashes of a revision, the wording of issues, the HTTP queries behind a preflight.
- Text and I/O: configuration, parsing of comments, prompts, rendering, HTTP, Docker, git plumbing, the CLI and the web UI.

## 8. Plan

Done: the journal, the gates, the progression, the review, the host, the sessions, the publication, the worker, the plan
graph, the partition of a review, the contract of reports and the rows a report leaves. Next:

1. An abstract publication (approved plan, set of created items, outcome) that `PlanPublication` implements, and an abstract
   review (units reviewed, verdict, draft flag) that `ReviewRound` implements.
2. Evaluation rows and the versioned configuration, whose digests decide whether two runs are comparable.
