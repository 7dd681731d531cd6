----------------------------- MODULE ReviewRound -----------------------------
(***************************************************************************)
(* The review of one change: the partitioned review round of the two axes, *)
(* the launches and the acceptance of its reviewers, the bounded repair of *)
(* blocking findings, and the readiness of the pull request                *)
(* (internal/factory/review*.go, readiness.go, progression.go, command.go, *)
(* and the review rows of internal/store).                                 *)
(*                                                                         *)
(* The coordinator is one loop: step is the operation it has begun, and    *)
(* each durable write of it is one action.  The process may stop between   *)
(* any two; then the effect, the rows and the pull request remain.         *)
(* Reviewers report, people comment and push at any time; the coordinator  *)
(* looks at them when it is idle.                                          *)
(*                                                                         *)
(* A session is identified by its assignment, because an assignment has at *)
(* most one active invocation.                                             *)
(***************************************************************************)
EXTENDS Naturals, FiniteSets

CONSTANTS
  MaxUnits,      \* most units a diff is split into
  FanOut,        \* units a round may have without authorization
  HostCeilings,  \* what the host may configure as review concurrency
  Budget,        \* automatic repairs that retry_limits.review_repair allows
  FindingLimit,  \* most findings one aggregate may hold
  Blockers,      \* identities of blocking findings
  Reports,       \* what a reviewer may report
  MaxCode,       \* bound on the checkpoints that are reviewed
  MaxFaults      \* bound on stops, failures, late sessions and foreign pushes

Axes == {"spec", "standards"}
Slots == Axes \X (1..MaxUnits)

Report == [outcome : {"done", "asks", "stuck"}, blocks : SUBSET Blockers]
NoReport == [outcome |-> "none", blocks |-> {}]

ASSUME UnitsAssumption == MaxUnits \in Nat \ {0} /\ FanOut \in Nat \ {0}
ASSUME HostAssumption == HostCeilings \subseteq Nat \ {0} /\ HostCeilings # {}
ASSUME LimitAssumption == Budget \in Nat /\ FindingLimit \in Nat
ASSUME ReportAssumption == Reports \subseteq Report /\ IsFiniteSet(Blockers)
ASSUME BoundAssumption == MaxCode \in Nat \ {0} /\ MaxFaults \in Nat

VARIABLES
  run,       \* the run row
  round,     \* the review round of the current checkpoint
  results,   \* the accepted result of every assignment
  sessions,  \* the reviewer of every assignment
  impl,      \* the implementation session
  effect,    \* the reserved acceptance of a report
  step,      \* what the coordinator is doing
  host,      \* the configured review concurrency
  pr,        \* the pull request: its draft flag and whose commit is its head
  code,      \* how many checkpoints were delivered
  faults,    \* how often something failed
  auto,      \* history: automatic repair sessions started
  sent,      \* history: blockers an automatic repair session got
  resent     \* history: one blocker was given to two such sessions

world == <<host, pr, code, faults>>
history == <<auto, sent, resent>>
vars == <<run, round, results, sessions, impl, effect, step, world, history>>

-----------------------------------------------------------------------------
(* Rows *)

\* pending is the reserved repair attempt, 0 when there is none; seen, the
\* blockers of the repair history; listed, the invocations the row names.
Run == [stage : {"implementation", "draft_pr", "review", "ready"},
        status : {"active", "waiting", "harness"},
        proj : [Axes -> Report \cup {NoReport}],
        questions : SUBSET Axes, listed : SUBSET Slots,
        attempts : Nat, pending : Nat, seen : SUBSET Blockers]

Round == [status : {"none", "pending", "active", "awaiting", "complete",
                    "error"},
          size : 0..MaxUnits, ceiling : Nat, authorized : BOOLEAN]
NoRound == [status |-> "none", size |-> 0, ceiling |-> 0,
            authorized |-> FALSE]
HasRound == round # NoRound

\* open: started but not committed to the run; late: past its deadline or its
\* worker was stopped; ready: its report is there.
SessionStates == {"none", "open", "live", "late", "ready"}

Effect == [slot : Slots, report : Report]
NoEffect == [slot |-> <<"spec", 0>>, report |-> NoReport]

Stages == {"idle", "down", "launch", "prepare", "start", "commit", "record",
           "save", "dispatch", "project", "route", "implement", "committed",
           "ready", "undraft", "revert", "persist", "authorize", "recover"}

\* unit 0 is a launch whose unit is not chosen, or an aggregate without a
\* report; then is "second" in the two launches that start a round and
\* "recover" at startup; repair marks a launch made for a reserved repair.
Step == [at : Stages, axis : Axes, unit : 0..MaxUnits, repair : BOOLEAN,
         replay : BOOLEAN, then : {"idle", "second", "recover"}]
Idle == [at |-> "idle", axis |-> "spec", unit |-> 0, repair |-> FALSE,
         replay |-> FALSE, then |-> "idle"]

At(stage) == step.at = stage
Goto(stage) == step' = [step EXCEPT !.at = stage]
\* An operation ended; at startup the recovery goes on.
Return == step' = IF step.then = "recover" THEN [Idle EXCEPT !.at = "recover"]
                                           ELSE Idle
Slot == <<step.axis, step.unit>>

TypeOK ==
  /\ run \in Run
  /\ round \in Round
  /\ results \in [Slots -> Report \cup {NoReport}]
  /\ sessions \in [Slots -> SessionStates]
  /\ impl \in {"none", "open", "live", "late"}
  /\ effect \in Effect \cup {NoEffect}
  /\ step \in Step
  /\ host \in HostCeilings
  /\ pr \in [draft : BOOLEAN, head : {"ours", "foreign"}]
  /\ code \in 1..MaxCode
  /\ faults \in 0..MaxFaults
  /\ auto \in Nat /\ sent \subseteq Blockers /\ resent \in BOOLEAN

NoResults == [s \in Slots |-> NoReport]
NoProjection == [a \in Axes |-> NoReport]
NoSessions == [s \in Slots |-> "none"]

\* A checkpoint was delivered to its draft pull request.
Init ==
  /\ run = [stage |-> "draft_pr", status |-> "active", proj |-> NoProjection,
            questions |-> {}, listed |-> {}, attempts |-> 0, pending |-> 0,
            seen |-> {}]
  /\ round = NoRound /\ results = NoResults /\ effect = NoEffect
  /\ sessions = NoSessions /\ impl = "none"
  /\ step = Idle
  /\ host \in HostCeilings
  /\ pr = [draft |-> TRUE, head |-> "ours"]
  /\ code = 1 /\ faults = 0
  /\ auto = 0 /\ sent = {} /\ resent = FALSE

Fault == faults < MaxFaults /\ faults' = faults + 1

-----------------------------------------------------------------------------
(* What the rows say *)

Reviewers == {s \in Slots : sessions[s] # "none"}
NeedsAttention == \E s \in Slots : sessions[s] \in {"ready", "late"}

RoundSlots == Axes \X (1..round.size)
Done == {s \in RoundSlots : results[s] # NoReport}
\* Mutant: an assignment with a result is launched again.
MissingWithResult == RoundSlots \ Reviewers
Missing == RoundSlots \ (Done \cup Reviewers)

\* The units advance together: the unit is the outer order, the axis inner.
Precedes(s, t) == \/ s[2] < t[2]
                  \/ s[2] = t[2] /\ (s[1] = "spec" \/ t[1] = "standards")
IsFirst(s, S) == s \in S /\ \A t \in S : Precedes(s, t)

ResultsOf(a) == {results[s] : s \in {t \in Done : t[1] = a}}
AxisDone(a) == HasRound /\ ({a} \X (1..round.size)) \subseteq Done
BlocksOf(a) == UNION {r.blocks : r \in ResultsOf(a)}

\* Mutant: the first unit stands for its axis.
AggregateOfFirst(a) == results[<<a, 1>>]

\* The aggregate of an axis: the worst outcome and every finding.
Aggregate(a) ==
  [outcome |-> IF \E r \in ResultsOf(a) : r.outcome = "stuck" THEN "stuck"
               ELSE IF \E r \in ResultsOf(a) : r.outcome = "asks" THEN "asks"
               ELSE "done",
   blocks |-> BlocksOf(a)]

Complete(r) == \A a \in Axes : r.proj[a] # NoReport
Incomplete(r) == \E a \in Axes : r.proj[a].outcome \in {"asks", "stuck"}
Keys(r) == UNION {r.proj[a].blocks : a \in Axes}

Passed(r) == Complete(r) /\ ~Incomplete(r) /\ Keys(r) = {}
Eligible == /\ run.stage \in {"review", "ready"}
            /\ run.status \in {"active", "waiting"}
            /\ Passed(run)
Settled == run.stage = "ready" /\ Eligible

\* A failed operation asks a person; only an active run is parked.
Paused(r) == [r EXCEPT !.status = IF @ = "active" THEN "waiting" ELSE @]

\* Without the report of an assignment, its session or its question.
Released(r, s) == [r EXCEPT !.stage = "review", !.status = "active",
                            !.questions = {}, !.listed = @ \ {s}]

-----------------------------------------------------------------------------
(* Progression: what the idle coordinator begins *)

\* A round keeps the ceiling it was created with; a narrower host lowers it.
HasRoom == /\ Cardinality(Reviewers) < round.ceiling
           /\ Cardinality(Reviewers) < host

MissingReviewUnit == /\ run.stage = "review"
                     /\ round.status \in {"pending", "active"}
                     /\ HasRoom /\ ~NeedsAttention /\ Missing # {}

StartReviewUnit ==
  /\ At("idle") /\ MissingReviewUnit
  /\ \E s \in Slots :
       /\ IsFirst(s, Missing)
       /\ step' = [Idle EXCEPT !.at = "launch", !.axis = s[1], !.unit = s[2]]
  /\ UNCHANGED <<run, round, results, sessions, impl, effect, world, history>>

RetryReviewReadiness ==
  /\ At("idle") /\ ~MissingReviewUnit
  /\ Eligible /\ ~Settled
  /\ Goto("ready")
  /\ UNCHANGED <<run, round, results, sessions, impl, effect, world, history>>

\* The stages are left to their own operation when nothing above applies.
StageTurn == /\ At("idle") /\ ~MissingReviewUnit /\ ~Eligible
             /\ run.status = "active"

StartReviewRound ==
  /\ StageTurn /\ run.stage = "draft_pr"
  /\ Reviewers = {} /\ impl = "none"
  /\ step' = [Idle EXCEPT !.at = "launch", !.then = "second"]
  /\ UNCHANGED <<run, round, results, sessions, impl, effect, world, history>>

StartImplementation ==
  /\ StageTurn /\ run.stage = "implementation"
  /\ Reviewers = {} /\ impl = "none"
  /\ Goto("implement")
  /\ UNCHANGED <<run, round, results, sessions, impl, effect, world, history>>

\* Mutant: only a late reviewer parks a review.
LateReviewStops ==
  /\ StageTurn
  /\ \E s \in Slots : sessions[s] = "late"
  /\ \A s \in Slots : sessions[s] # "ready"
  /\ run' = Paused(run)
  /\ UNCHANGED <<round, results, sessions, impl, effect, step, world, history>>

\* A reviewer is past its deadline, or a review has no active reviewer and
\* nothing to launch: a person is asked.
ReviewStops ==
  /\ StageTurn
  /\ \/ /\ \E s \in Slots : sessions[s] = "late"
        /\ \A s \in Slots : sessions[s] # "ready"
     \/ run.stage = "review" /\ Reviewers = {}
  /\ run' = Paused(run)
  /\ UNCHANGED <<round, results, sessions, impl, effect, step, world, history>>

-----------------------------------------------------------------------------
(* The launch of a reviewer *)

UnitsLeft(a) == {s \in Missing : s[1] = a}

LaunchRefused ==
  \/ run.proj[step.axis] # NoReport
  \/ Cardinality(Reviewers) >= host
  \/ HasRound /\ IF step.unit = 0 THEN UnitsLeft(step.axis) = {}
                                  ELSE Slot \notin Missing

\* Mutant: a manifest may have one unit too many.
SaveOneUnitMore ==
  /\ \E n \in 1..(MaxUnits + 1) :
       round' = [status |-> "pending", size |-> n, ceiling |-> host,
                 authorized |-> FALSE]
  /\ step' = [step EXCEPT !.at = "prepare", !.unit = 1]
  /\ UNCHANGED run

\* The manifest is saved once per checkpoint, with the ceiling of the host.
SaveReviewManifest ==
  /\ \E n \in 1..MaxUnits :
       round' = [status |-> "pending", size |-> n, ceiling |-> host,
                 authorized |-> FALSE]
  /\ step' = [step EXCEPT !.at = "prepare", !.unit = 1]
  /\ UNCHANGED run

\* A launch without a unit takes the first one its axis has left.
ChosenUnit ==
  \E u \in 1..MaxUnits :
    /\ IF step.unit = 0 THEN IsFirst(<<step.axis, u>>, UnitsLeft(step.axis))
                        ELSE u = step.unit
    /\ step' = [step EXCEPT !.at = "prepare", !.unit = u]

LaunchReviewer ==
  /\ At("launch")
  /\ \/ /\ LaunchRefused
        /\ run' = Paused(run) /\ Return
        /\ UNCHANGED round
     \/ ~LaunchRefused /\ ~HasRound /\ SaveReviewManifest
     \/ /\ ~LaunchRefused /\ HasRound /\ ChosenUnit
        /\ UNCHANGED <<run, round>>
  /\ UNCHANGED <<results, sessions, impl, effect, world, history>>

Oversized == round.size > FanOut /\ ~round.authorized

\* A manifest above the normal fan-out waits for its authorization.
PrepareReview ==
  /\ At("prepare")
  /\ IF Oversized
       THEN /\ round' = [round EXCEPT !.status = "awaiting"]
            /\ run' = Paused(run) /\ Return
       ELSE /\ round' = [round EXCEPT !.status = "active"]
            /\ Goto("start")
            /\ UNCHANGED run
  /\ UNCHANGED <<results, sessions, impl, effect, world, history>>

StartReviewer ==
  /\ At("start")
  /\ sessions' = [sessions EXCEPT ![Slot] = "open"]
  /\ Goto("commit")
  /\ UNCHANGED <<run, round, results, impl, effect, world, history>>

\* The session is listed; a started round goes on with the second axis.
CommitReviewer ==
  /\ At("commit")
  /\ run' = [run EXCEPT !.stage = "review", !.status = "active",
                        !.listed = @ \cup {Slot}]
  /\ sessions' = [sessions EXCEPT ![Slot] = "live"]
  /\ step' = IF step.then = "second" /\ step.axis = "spec"
               THEN [Idle EXCEPT !.at = "launch", !.axis = "standards",
                       !.then = "second"]
               ELSE Idle
  /\ UNCHANGED <<round, results, impl, effect, world, history>>

\* A failed launch ends its session and asks a person.
LaunchFails ==
  /\ step.at \in {"launch", "prepare", "start", "commit"} /\ Fault
  /\ sessions' = IF At("commit") THEN [sessions EXCEPT ![Slot] = "none"]
                                 ELSE sessions
  /\ run' = Paused(run) /\ Return
  /\ UNCHANGED <<round, results, impl, effect, host, pr, code, history>>

-----------------------------------------------------------------------------
(* The acceptance of a report *)

Acceptable(s) == \/ run.status = "active"
                 \/ run.status = "waiting" /\ run.stage = "review"
                    /\ s \in run.listed

ReserveAcceptance ==
  /\ At("idle") /\ ~Eligible
  /\ \E s \in Slots : /\ sessions[s] = "ready" /\ Acceptable(s)
       /\ \E r \in Reports : effect' = [slot |-> s, report |-> r]
       /\ step' = [Idle EXCEPT !.at = "record", !.axis = s[1], !.unit = s[2]]
  /\ UNCHANGED <<run, round, results, sessions, impl, world, history>>

\* The invocation ends and its result is stored.
RecordResult ==
  /\ At("record")
  /\ sessions' = [sessions EXCEPT ![Slot] = "none"]
  /\ results' = [results EXCEPT ![Slot] = effect.report]
  /\ Goto("save")
  /\ UNCHANGED <<run, round, impl, effect, world, history>>

\* A review is reserved at the revision the run already has, so a replay finds
\* nothing to save.
SaveRun ==
  /\ At("save")
  /\ run' = IF step.replay THEN run ELSE Released(run, Slot)
  /\ effect' = NoEffect
  /\ Goto("dispatch")
  /\ UNCHANGED <<round, results, sessions, impl, world, history>>

OverLimit(a) == AxisDone(a) /\ Cardinality(BlocksOf(a)) > FindingLimit
Terminal == HasRound /\ Done = RoundSlots
\* A failed round never becomes complete, nor a complete one failed.
StatusRefused(fails) == IF fails THEN round.status = "complete"
                        ELSE Terminal /\ round.status = "error"

\* Mutant: a round is complete as soon as one axis is.
MarkRoundEarly ==
  /\ At("dispatch")
  /\ IF OverLimit(step.axis) THEN round' = [round EXCEPT !.status = "error"]
     ELSE IF AxisDone(step.axis) THEN round' = [round EXCEPT !.status = "complete"]
     ELSE UNCHANGED round
  /\ Goto("project")
  /\ UNCHANGED <<run, results, sessions, impl, effect, world, history>>

\* The round is marked before the run: as failed when an aggregate exceeds its
\* limit, as complete when every assignment has a result.  An aggregate rebuilt
\* at startup does not mark the round failed.
MarkRound ==
  /\ At("dispatch")
  /\ LET fails == OverLimit(step.axis)
     IN IF StatusRefused(fails) \/ (fails /\ step.unit = 0)
          THEN run' = Paused(run) /\ step' = Idle /\ UNCHANGED round
          ELSE /\ round' = IF fails THEN [round EXCEPT !.status = "error"]
                           ELSE IF Terminal
                             THEN [round EXCEPT !.status = "complete"]
                           ELSE round
               /\ Goto("project")
               /\ UNCHANGED run
  /\ UNCHANGED <<results, sessions, impl, effect, world, history>>

\* The run without the accepted report, with the aggregate of a complete axis.
Projected ==
  LET base == IF step.unit = 0 THEN run ELSE Released(run, Slot)
      proj == [base.proj EXCEPT ![step.axis] = Aggregate(step.axis)]
  IN IF ~AxisDone(step.axis) THEN base
     ELSE [base EXCEPT !.proj = proj,
             !.questions = {a \in Axes : proj[a].outcome = "asks"}]

\* One round is projected when its unit is; only a complete one goes on.
ProjectReview ==
  /\ At("project")
  /\ LET stuck == OverLimit(step.axis)
         next == IF stuck THEN Released(run, Slot) ELSE Projected
         stays == stuck \/ Incomplete(next)
     IN /\ run' = [next EXCEPT !.status = IF stays THEN "waiting"
                                                   ELSE "active"]
        /\ IF stays \/ ~Complete(next) THEN Return
           ELSE Goto(IF Keys(next) = {} THEN "ready" ELSE "route")
  /\ UNCHANGED <<round, results, sessions, impl, effect, world, history>>

\* A status, label or row write of the coordinator fails.
WriteFails ==
  /\ step.at \in {"project", "route", "ready", "undraft", "revert", "persist"}
  /\ Fault
  /\ run' = Paused(run) /\ step' = Idle
  /\ UNCHANGED <<round, results, sessions, impl, effect, host, pr, code,
                 history>>

-----------------------------------------------------------------------------
(* The repair of blocking findings *)

Decision == IF Keys(run) = {} \/ Budget = 0 \/ run.pending # 0 THEN "wait"
            ELSE IF Keys(run) \cap run.seen # {} THEN "escalate"
            ELSE IF run.attempts >= Budget THEN "escalate"
            ELSE "start"

\* Mutant: the reserved repair does not remember its blockers.
Forget(seen) == run.seen
Remember(seen) == run.seen \cup seen

\* The repair is reserved before its implementer is launched; an attempt of
\* the history is kept with the blockers it was about.
RouteReviewRepair ==
  /\ At("route")
  /\ IF Decision = "start"
       THEN /\ run' = [run EXCEPT !.stage = "implementation",
                         !.status = "active", !.pending = run.attempts + 1,
                         !.seen = Remember(Keys(run)), !.questions = {}]
            /\ step' = [step EXCEPT !.at = "implement", !.repair = TRUE]
       ELSE /\ run' = [run EXCEPT !.status = "waiting", !.pending = 0,
                         !.seen = IF Decision = "escalate" /\ run.attempts > 0
                                    THEN Remember(Keys(run)) ELSE @]
            /\ Return
  /\ UNCHANGED <<round, results, sessions, impl, effect, world, history>>

LaunchImplementer ==
  /\ At("implement")
  /\ impl' = "open"
  /\ Goto("committed")
  /\ UNCHANGED <<run, round, results, sessions, effect, world, history>>

\* A session goes to work; while an attempt is pending, its packet is the one
\* of an automatic repair.
Works ==
  /\ impl' = "live"
  /\ IF run.pending = 0 THEN UNCHANGED history
     ELSE /\ auto' = auto + 1
          /\ sent' = sent \cup Keys(run)
          /\ resent' = (resent \/ sent \cap Keys(run) # {})

\* Only the launch made for the reservation consumes it.
CommitImplementer ==
  /\ At("committed")
  /\ run' = [run EXCEPT !.status = "active",
                        !.attempts = IF step.repair THEN run.pending ELSE @,
                        !.pending = IF step.repair THEN 0 ELSE @]
  /\ Works /\ Return
  /\ UNCHANGED <<round, results, sessions, effect, world>>

\* A repair that cannot start gives its reservation back; another launch asks
\* a person, and a retry for capacity leaves the run as it is.
ImplementerFails ==
  /\ step.at \in {"implement", "committed"} /\ Fault
  /\ run' = IF step.repair
              THEN [run EXCEPT !.stage = "review", !.status = "waiting",
                               !.pending = 0]
              ELSE Paused(run)
  /\ impl' = "none" /\ Return
  /\ UNCHANGED <<round, results, sessions, effect, host, pr, code, history>>

\* The reservation of a rate-limited repair stays.
ImplementerRateLimited ==
  /\ step.at \in {"implement", "committed"} /\ Fault
  /\ run' = [run EXCEPT !.status = "harness"]
  /\ impl' = "none" /\ Return
  /\ UNCHANGED <<round, results, sessions, effect, host, pr, code, history>>

\* Polling launches the implementer of a run that waits for capacity, or
\* resumes the session it finds.
RetryWaitingForHarness ==
  /\ At("idle") /\ run.status = "harness"
  /\ IF impl = "none"
       THEN Goto("implement") /\ UNCHANGED <<run, impl, history>>
       ELSE /\ run' = [run EXCEPT !.status = "active"]
            /\ Works /\ UNCHANGED step
  /\ UNCHANGED <<round, results, sessions, effect, world>>

-----------------------------------------------------------------------------
(* The readiness of the pull request *)

UnreviewedHead == pr.head = "foreign"

CheckHead ==
  /\ At("ready")
  /\ Goto(IF UnreviewedHead THEN "revert" ELSE "undraft")
  /\ UNCHANGED <<run, round, results, sessions, impl, effect, world, history>>

\* The answer of the update carries the head that became ready.
RemoveDraftFlag ==
  /\ At("undraft")
  /\ pr' = [pr EXCEPT !.draft = FALSE]
  /\ Goto(IF pr.draft /\ UnreviewedHead THEN "revert" ELSE "persist")
  /\ UNCHANGED <<run, round, results, sessions, impl, effect, host, code,
                 faults, history>>

\* Mutant: the draft flag is not put back.
RejectWithoutDraft ==
  /\ At("revert")
  /\ run' = Paused(run) /\ step' = Idle
  /\ UNCHANGED <<round, results, sessions, impl, effect, world, history>>

RejectUnreviewedHead ==
  /\ At("revert")
  /\ pr' = [pr EXCEPT !.draft = TRUE]
  /\ run' = Paused(run) /\ step' = Idle
  /\ UNCHANGED <<round, results, sessions, impl, effect, host, code, faults,
                 history>>

PersistReady ==
  /\ At("persist")
  /\ run' = [run EXCEPT !.stage = "ready", !.status = "active"]
  /\ Return
  /\ UNCHANGED <<round, results, sessions, impl, effect, world, history>>

-----------------------------------------------------------------------------
(* Stop and restart *)

Crash ==
  /\ ~At("down") /\ Fault
  /\ step' = [Idle EXCEPT !.at = "down"]
  /\ UNCHANGED <<run, round, results, sessions, impl, effect, host, pr, code,
                 history>>

\* Mutant: a restart does not look for a reserved acceptance.
StartUpForgets ==
  /\ At("down")
  /\ step' = [Idle EXCEPT !.at = "recover"]
  /\ UNCHANGED <<run, round, results, sessions, impl, effect, world, history>>

\* A reserved acceptance is replayed before anything else.
StartUp ==
  /\ At("down")
  /\ step' = IF effect = NoEffect
               THEN [Idle EXCEPT !.at = "recover"]
               ELSE [Idle EXCEPT !.at = "record", !.axis = effect.slot[1],
                       !.unit = effect.slot[2], !.replay = TRUE,
                       !.then = "recover"]
  /\ UNCHANGED <<run, round, results, sessions, impl, effect, world, history>>

Unprojected == {a \in Axes : run.proj[a] = NoReport /\ AxisDone(a)}

AggregatesLost == /\ run.stage = "review" /\ run.status # "harness"
                  /\ round.status \notin {"none", "awaiting", "error"}
                  /\ Reviewers = {} /\ Unprojected # {}

RecoverAggregate ==
  /\ At("recover") /\ AggregatesLost
  /\ step' = [Idle EXCEPT !.at = "dispatch", !.then = "recover",
                !.axis = IF "spec" \in Unprojected THEN "spec"
                                                   ELSE "standards"]
  /\ UNCHANGED <<run, round, results, sessions, impl, effect, world, history>>

\* The sources agree; a session that was being launched is adopted.
Agree ==
  /\ ~(run.stage = "implementation" /\ run.status = "active" /\ impl = "none")
  /\ sessions' = [s \in Slots |-> IF sessions[s] = "open" THEN "live"
                                                          ELSE sessions[s]]
  /\ IF impl = "open" THEN Works ELSE UNCHANGED <<impl, history>>
  /\ UNCHANGED run

\* The sources disagree: the workers are stopped and a person is asked.
Disagree ==
  /\ sessions' = [s \in Slots |-> IF sessions[s] \in {"open", "live"}
                                    THEN "late" ELSE sessions[s]]
  /\ impl' = IF impl = "none" THEN "none" ELSE "late"
  /\ run' = Paused(run)
  /\ UNCHANGED history

\* A wait for capacity is left to the polling.
Reconcile ==
  /\ At("recover") /\ ~AggregatesLost
  /\ IF run.status = "harness" THEN UNCHANGED <<run, sessions, impl, history>>
     ELSE Agree \/ Disagree
  /\ step' = Idle
  /\ UNCHANGED <<round, results, effect, world>>

-----------------------------------------------------------------------------
(* People *)

\* Mutant: the pull request is left as it is.
RepairUndrafted ==
  /\ At("idle") /\ run.stage = "review" /\ run.status = "waiting"
  /\ run.listed = {} /\ Reviewers = {} /\ impl = "none"
  /\ run' = [run EXCEPT !.stage = "implementation", !.status = "active",
               !.proj = NoProjection, !.pending = 0, !.questions = {}]
  /\ UNCHANGED <<round, results, sessions, impl, effect, step, world, history>>

\* A maintainer directs a repair of a waiting review, outside of the budget.
\* The pull request returns to draft before the run is saved.
HandleRepair ==
  /\ At("idle") /\ run.stage = "review" /\ run.status = "waiting"
  /\ run.listed = {} /\ Reviewers = {} /\ impl = "none"
  /\ pr' = [pr EXCEPT !.draft = TRUE]
  /\ run' = [run EXCEPT !.stage = "implementation", !.status = "active",
               !.proj = NoProjection, !.pending = 0, !.questions = {}]
  /\ UNCHANGED <<round, results, sessions, impl, effect, step, host, code,
                 faults, history>>

\* An answer changes the packet: what was derived from the old one is gone and
\* the implementation starts again.
HandleAnswer ==
  /\ At("idle")
  /\ \/ run.status = "waiting"
     \/ run.status = "active" /\ run.questions # {}
  /\ \E q \in run.questions :
       run' = [run EXCEPT !.stage = "implementation", !.status = "active",
                 !.proj = NoProjection, !.questions = @ \ {q}, !.listed = {},
                 !.attempts = 0, !.pending = 0, !.seen = {}]
  /\ round' = NoRound /\ results' = NoResults
  /\ sessions' = NoSessions /\ impl' = "none"
  /\ Goto("implement")
  /\ auto' = 0 /\ sent' = {} /\ UNCHANGED resent
  /\ UNCHANGED <<effect, world>>

\* The authorization is stored with the round, then the run is activated.
HandleReviewAuthorization ==
  /\ At("idle") /\ run.stage \in {"draft_pr", "review"}
  /\ round.status = "awaiting" /\ Reviewers = {} /\ impl = "none"
  /\ round' = [round EXCEPT !.status = "pending", !.authorized = TRUE]
  /\ Goto("authorize")
  /\ UNCHANGED <<run, results, sessions, impl, effect, world, history>>

ActivateAuthorized ==
  /\ At("authorize")
  /\ run' = [run EXCEPT !.status = "active"]
  /\ step' = Idle
  /\ UNCHANGED <<round, results, sessions, impl, effect, world, history>>

-----------------------------------------------------------------------------
(* The world around *)

\* A reviewer leaves its report.
ReportReady(s) ==
  /\ sessions[s] \in {"live", "late"}
  /\ sessions' = [sessions EXCEPT ![s] = "ready"]
  /\ UNCHANGED <<run, round, results, impl, effect, step, world, history>>

\* A reviewer passes its deadline.
Expire ==
  /\ \E s \in Slots : /\ sessions[s] = "live"
                      /\ sessions' = [sessions EXCEPT ![s] = "late"]
  /\ Fault
  /\ UNCHANGED <<run, round, results, impl, effect, step, host, pr, code,
                 history>>

\* A pass reads the host configuration once.
ConfigureHost ==
  /\ At("idle") /\ Fault
  /\ \E c \in HostCeilings \ {host} : host' = c
  /\ UNCHANGED <<run, round, results, sessions, impl, effect, step, pr, code,
                 history>>

PushForeign ==
  /\ run.stage = "review" /\ pr.head = "ours" /\ Fault
  /\ pr' = [pr EXCEPT !.head = "foreign"]
  /\ UNCHANGED <<run, round, results, sessions, impl, effect, step, host, code,
                 history>>

\* The implementation is accepted, checked, and delivered to the draft pull
\* request: a checkpoint that no round, result or projection is about.
Deliver ==
  /\ At("idle") /\ impl = "live" /\ code < MaxCode /\ pr.head = "ours"
  /\ run.stage = "implementation" /\ run.status = "active"
  /\ code' = code + 1
  /\ run' = [run EXCEPT !.stage = "draft_pr", !.proj = NoProjection,
               !.questions = {}, !.listed = {}]
  /\ round' = NoRound /\ results' = NoResults /\ impl' = "none"
  /\ UNCHANGED <<sessions, effect, step, host, pr, faults, history>>

-----------------------------------------------------------------------------

Coordinator ==
  \/ StartReviewUnit \/ RetryReviewReadiness \/ StartReviewRound
  \/ StartImplementation \/ ReviewStops \/ RetryWaitingForHarness
  \/ LaunchReviewer \/ PrepareReview \/ StartReviewer \/ CommitReviewer
  \/ ReserveAcceptance \/ RecordResult \/ SaveRun \/ MarkRound \/ ProjectReview
  \/ RouteReviewRepair \/ LaunchImplementer \/ CommitImplementer
  \/ CheckHead \/ RemoveDraftFlag \/ RejectUnreviewedHead \/ PersistReady
  \/ StartUp \/ RecoverAggregate \/ Reconcile \/ ActivateAuthorized

Failures == \/ LaunchFails \/ WriteFails \/ ImplementerFails
            \/ ImplementerRateLimited \/ Crash \/ Expire

People == \/ HandleRepair \/ HandleAnswer \/ HandleReviewAuthorization
          \/ ConfigureHost \/ PushForeign

Next == \/ Coordinator \/ Failures \/ People \/ Deliver
        \/ \E s \in Slots : ReportReady(s)

\* The loop goes on whenever it can, the supervisor restarts it, and a
\* reviewer that runs ends with a report.  Nobody has to comment.
Fairness == /\ WF_vars(Coordinator)
            /\ \A s \in Slots : WF_vars(sessions[s] = "live" /\ ReportReady(s))

Spec == Init /\ [][Next]_vars /\ Fairness

-----------------------------------------------------------------------------
(* Safety *)

\* No assignment is reviewed again after its result was stored, whatever stop
\* or replay falls between the two (missingReviewUnit, nextReviewUnit).
ReviewedOnce == \A s \in Done : sessions[s] = "none"

\* A projection, on which repair and readiness decide, is the aggregate of
\* every unit of its axis: it hides no finding and no incomplete unit
\* (aggregateReviewUnitResults, acceptReviewReport).
ProjectionsAreAggregates ==
  \A a \in Axes : run.proj[a] # NoReport =>
    /\ AxisDone(a)
    /\ \A u \in 1..round.size :
         /\ results[<<a, u>>].blocks \subseteq run.proj[a].blocks
         /\ results[<<a, u>>].outcome # "done" => run.proj[a].outcome # "done"

\* A round is complete only when both axes have a result for every unit of the
\* manifest (reviewManifestTerminal).
CompleteRoundIsReviewed == round.status = "complete" => Done = RoundSlots

\* A diff above the normal fan-out is reviewed only once it was authorized, in
\* whatever order launches, stops and comments come (preparePartitionedReview).
OversizedIsAuthorized ==
  Reviewers # {} \/ Done # {} => round.size <= FanOut \/ round.authorized

\* A pull request without its draft flag carries a checkpoint for which every
\* unit was reviewed on both axes without a blocker or an open question, also
\* when the process stopped while it became ready, and until a repair of it
\* begins (finalizeReviewReadiness, handleRepairCommand).
UndraftedIsReviewed ==
  ~pr.draft => /\ run.stage \in {"review", "ready"}
               /\ HasRound /\ Done = RoundSlots
               /\ \A s \in Done : results[s] = [outcome |-> "done",
                                                blocks |-> {}]

\* The same blocker never gets a second automatic repair session until an
\* answer changed the packet, whatever launch failed, was rate limited or was
\* adopted after a stop (reviewRepairHasRepeatedBlocker).
BlockerRepairedOnce == ~resent

\* The automatic repairs since the last answer stay within the budget
\* (decideReviewRepair; docs/configuration.md: retry_limits.review_repair
\* bounds automatic implementation repairs caused by blocking findings).
RepairsWithinBudget == auto <= Budget

-----------------------------------------------------------------------------
(* Steps *)

\* No launch makes more reviewers than the host allows at that moment, and a
\* launch that fills a started round none above the ceiling the round was
\* created with, while sessions end, expire and are adopted
\* (reviewConcurrencyCeiling, PlanLaunch).
CeilingHeld ==
  [][Cardinality(Reviewers') > Cardinality(Reviewers) =>
       /\ Cardinality(Reviewers') <= host
       /\ step.then # "second" => Cardinality(Reviewers') <= round.ceiling]_vars

\* A reserved acceptance goes only when its report is stored as the result of
\* its assignment, whatever stops fall between its writes (Accept and Replay of
\* a result acceptance).
ReservationKept ==
  [][effect # NoEffect /\ effect' # effect
       => results[effect.slot] = effect.report]_vars

-----------------------------------------------------------------------------
(* Liveness *)

\* A review never stays active with nobody working on it: it goes on to repair
\* or readiness, or it waits for a person (progressionStep).
ActiveSettles ==
  run.stage = "review" /\ run.status = "active"
    ~> run.stage # "review" \/ run.status # "active"

\* A round that passed makes its pull request ready or, when somebody pushed
\* meanwhile, leaves it a draft (retryReviewReadiness,
\* rejectUnreviewedPullRequestHead).
PassedSettles ==
  run.stage = "review" /\ Eligible
    ~> run.stage = "ready" \/ ~Eligible \/ pr = [draft |-> TRUE,
                                                 head |-> "foreign"]

\* Both ways a review may be left behind.
ReviewSettles == ActiveSettles /\ PassedSettles

=============================================================================
