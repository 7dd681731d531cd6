---------------------------- MODULE RunProgression ----------------------------
(***************************************************************************)
(* One claimed run from its baseline to its draft pull request, driven by  *)
(* the coordinator (internal/factory): progression picks the next step,    *)
(* the invocation lifecycle launches the role of the stage, a structured   *)
(* report is accepted and routed by the workflow registry, a failing check *)
(* or a disputed test goes back to the role that owns it, and a restart    *)
(* reconciles whatever the previous process had under way.                 *)
(*                                                                         *)
(* An operation of the coordinator is split at its durable writes and at   *)
(* its calls to the worker; the process can stop between any two of them.  *)
(* Whether one journaled effect survives a stop is the subject of          *)
(* EffectJournal, what the gates decide of GateSuite, and the review after *)
(* the draft pull request of ReviewRound.                                  *)
(***************************************************************************)
EXTENDS Naturals, FiniteSets

CONSTANTS Packets,    \* frozen specification packets considered, see PacketOK
          Disputes,   \* tests an implementation can object to
          MaxTurns,   \* bound: reports that send the run back, and edits of tests
          MaxFaults,  \* bound: stopped processes, failed calls, dead agents
          MaxCommands \* bound: commands of the maintainer

Routes == {"default", "acceptance", "design-acceptance"}

\* required: the mode wants an independent test stage; human: a human
\* exemption is marked in the issue and allowed; technical: the test role may
\* claim an exemption; automated: objections are handled without a person.
PacketOK(p) ==
    /\ p.route \in Routes
    /\ {p.required, p.human, p.technical, p.automated} \subseteq BOOLEAN
    /\ p.revisions \in Nat \ {0} /\ p.repairs \in Nat

ASSUME ProgressionAssumption ==
    /\ "" \notin Disputes
    /\ MaxTurns \in Nat /\ MaxFaults \in Nat /\ MaxCommands \in Nat
    /\ \A p \in Packets : PacketOK(p)

Roles    == {"architecture", "test", "implementation"}
Stages   == {"claim"} \cup Roles \cup {"check", "draft_pr"}
Statuses == {"active", "waiting_for_human", "waiting_for_harness", "failed", "cancelled"}

\* Why a run waits.  resumable: expired authentication, out of memory or an
\* exhausted automatic recovery; checks: the check infrastructure; recovery:
\* restart reconciliation; policy: any other stop.
Reasons  == {"", "resumable", "capacity", "checks", "recovery", "policy"}

Terminal(status) == status \in {"failed", "cancelled"}

-----------------------------------------------------------------------------
VARIABLES packet, \* the frozen packet
          run,    \* the run row
          row,    \* the latest invocation row; only the latest can be active
          journal,\* pending_effects holds a native resume that was reserved
          worker, \* the worker container of that invocation runs
          agent,  \* its agent works: no report yet and the session is alive
          tests,  \* version of the test files in the worktree
          red,    \* history: versions this packet's red verification confirmed
          op,     \* the coordinator's operation under way and its next boundary
          coord,  \* coordinator process: down, starting, ready
          runs,   \* history: repair and revision sessions that the coordinator began
          turns,  \* bound
          faults, \* bound
          cmds    \* bound

vars == <<packet, run, row, journal, worker, agent, tests, red, op, coord,
          runs, turns, faults, cmds>>

NoRow == [role |-> "none", status |-> "none", session |-> FALSE, native |-> FALSE,
          resumes |-> 0, calls |-> 0, report |-> "none", voided |-> FALSE,
          here |-> FALSE, revision |-> FALSE, repair |-> FALSE]

Objections == {""} \cup Disputes

\* The run row and its invocation row, as far as the properties tell values apart.
RunRows == [stage : Stages, status : Statuses, why : Reasons, questions : BOOLEAN,
            handoff : BOOLEAN, protected : Nat, skipped : {"", "human", "technical"},
            testInv : BOOLEAN, objection : Objections, dispute : Objections,
            tries : Nat, attempts : Nat, pending : Nat]

Rows == [role : Roles \cup {"none"}, session : BOOLEAN, native : BOOLEAN,
         status : {"none", "active", "completed", "waiting_for_human",
                   "cannot_proceed", "superseded"},
         resumes : Nat,
         calls : Nat,     \* history: automatic native resumes
         report : {"none", "completed", "clarification", "cannot_proceed", "objection",
                   "exemption", "rejected"},
         voided : BOOLEAN, here : BOOLEAN, revision : BOOLEAN, repair : BOOLEAN]

Idle == [do |-> "idle", at |-> ""]
Op(do, at) == [do |-> do, at |-> at]
Ops == {Idle} \cup {Op("launch", at) : at \in {"saved", "worker", "called", "session"}}
              \cup {Op("accepted", at) : at \in {"policy", "red", "next"}}
              \cup {Op("deliver", at) : at \in {"gates", "pull_request"}}
              \cup {Op("repair", at) : at \in {"start", "saved", "worker", "reserved",
                                               "journaled", "resumed"}}
              \cup {Op("resume", at) : at \in {"automatic", "manual"}}

Active == row.status = "active"

\* What an idle, started coordinator may do with an active run.
Driving == coord = "ready" /\ op = Idle /\ run.status = "active"

Faults(n) == faults + n <= MaxFaults /\ faults' = faults + n

Park(status, why) == run' = [run EXCEPT !.status = status, !.why = why]

\* Mutant: a refused step leaves the run active, without anybody on it.
StopNothing(r) == r

\* pauseProgression: only a run that is still active is paused.
Stop(r) == IF r.status = "active"
           THEN [r EXCEPT !.status = "waiting_for_human", !.why = "policy"] ELSE r

-----------------------------------------------------------------------------
(***************************************************************************)
(* The stages a packet asks for.                                           *)
(***************************************************************************)
EntryStage == CASE packet.route = "acceptance"        -> "test"
                [] packet.route = "design-acceptance" -> "architecture"
                [] OTHER                              -> "implementation"

independentTestStageDeclared == packet.route # "default" \/ packet.required

humanExemption == packet.route = "default" /\ packet.required /\ packet.human

testStageShouldRun == independentTestStageDeclared /\ ~humanExemption

postBaselineStage == IF packet.route # "default" THEN EntryStage
                     ELSE IF testStageShouldRun THEN "test" ELSE "implementation"

\* Where a packet change takes the run.
packetResumeStage(r) ==
    IF r.stage = "claim" THEN "claim"
    ELSE IF EntryStage # "test" /\ packet.route # "default" THEN EntryStage
    ELSE IF testStageShouldRun /\ (r.stage = "test" \/ r.skipped = "") THEN "test"
    ELSE "implementation"

\* Mutant: a packet change keeps the protected handoff.
resetKeepingTests(r) == [r EXCEPT !.objection = "", !.tries = 0, !.dispute = "",
                                  !.skipped = IF humanExemption THEN "human" ELSE ""]

\* resetTestProjectionForPacketChange: nothing the old packet's test role did
\* counts any more; the repair attempts stay.
resetTestProjection(r) ==
    [r EXCEPT !.handoff = FALSE, !.protected = 0, !.testInv = FALSE, !.objection = "",
              !.tries = 0, !.dispute = "",
              !.skipped = IF humanExemption THEN "human" ELSE ""]

\* The run after a healthy baseline.
advanceAfterBaseline(r) ==
    [r EXCEPT !.stage = postBaselineStage, !.status = "active", !.why = "",
              !.handoff = FALSE, !.protected = 0,
              !.skipped = IF humanExemption THEN "human" ELSE ""]

-----------------------------------------------------------------------------
NewRun == [stage |-> "claim", status |-> "active", why |-> "", questions |-> FALSE,
           handoff |-> FALSE, protected |-> 0, skipped |-> "", testInv |-> FALSE,
           objection |-> "", dispute |-> "", tries |-> 0, attempts |-> 0, pending |-> 0]

Init ==
    /\ packet \in Packets /\ run = NewRun /\ row = NoRow /\ journal = FALSE
    /\ worker = FALSE /\ agent = "none" /\ tests = 0 /\ red = {}
    /\ op = Idle /\ coord = "ready"
    /\ runs = [repairs |-> 0, revisions |-> 0]
    /\ turns = 0 /\ faults = 0 /\ cmds = 0

bounds == <<turns, faults, cmds>>
code   == <<tests, red>>
live   == <<worker, agent>>

\* stopActiveRunWorkers: the agent is cancelled and its container stopped.
StopWorkers == worker' = FALSE /\ agent' = "none"

\* RunBaseline, then advanceAfterBaseline or a pause.  What is healthy, and
\* how a crash inside the suite is answered, is in GateSuite.
RunBaseline ==
    /\ Driving /\ ~Active /\ run.stage = "claim" /\ run.pending = 0
    /\ \/ run' = advanceAfterBaseline(run) /\ UNCHANGED faults
       \/ run' = Stop(run) /\ Faults(1)
    /\ UNCHANGED <<packet, row, journal, live, code, op, coord, runs, turns, cmds>>

-----------------------------------------------------------------------------
(***************************************************************************)
(* Launching the role of a stage.                                          *)
(***************************************************************************)
\* A test role launch with an open objection revises the disputed test in the
\* session that wrote it.
TestRevision(role) == role = "test" /\ run.stage = "test" /\ run.objection # ""

\* What a launch is refused for.  The latest row of the same role and stage
\* blocks a plain launch unless it is superseded.
PlanLaunchAfter(r, role) ==
    /\ run.pending = 0 /\ r.status # "active" /\ role \in Roles
    /\ role = "test" => independentTestStageDeclared
    /\ IF TestRevision(role) THEN run.testInv
       ELSE r.role # role \/ r.status = "superseded"

PlanLaunch(role) == PlanLaunchAfter(row, role)

\* The row is stored before its worker and its agent exist.
SaveInvocation(role) ==
    /\ row' = [NoRow EXCEPT !.role = role, !.status = "active", !.here = TRUE,
                            !.revision = TestRevision(role)]
    /\ op' = Op("launch", "saved")

\* progressionStageStep: the stage's role is launched, except where its
\* completed invocation leaves the next step to the delivery.
StartsAgent == run.stage \in Roles
               /\ ~(run.stage = "implementation" /\ row.role = "implementation"
                     /\ row.status = "completed")

StartAgent ==
    /\ Driving /\ ~Active /\ run.pending = 0 /\ StartsAgent
    /\ IF PlanLaunch(run.stage)
       THEN SaveInvocation(run.stage) /\ UNCHANGED run
       ELSE run' = Stop(run) /\ UNCHANGED <<row, op>>
    /\ UNCHANGED <<packet, journal, live, code, coord, runs, bounds>>

StartWorker ==
    /\ coord = "ready" /\ op = Op("launch", "saved")
    /\ worker' = TRUE /\ op' = Op("launch", "worker")
    /\ UNCHANGED <<packet, run, row, journal, agent, code, coord, runs, bounds>>

\* startLaunchHarness: a new session, or the resumed session of the test role.
StartHarness ==
    /\ coord = "ready" /\ op = Op("launch", "worker")
    /\ agent' = "working" /\ row' = [row EXCEPT !.native = TRUE]
    /\ op' = Op("launch", "called")
    /\ runs' = IF row.revision /\ run.status = "active"
               THEN [runs EXCEPT !.revisions = @ + 1] ELSE runs
    /\ UNCHANGED <<packet, run, journal, worker, code, coord, bounds>>

SaveSession ==
    /\ coord = "ready" /\ op = Op("launch", "called")
    /\ row' = [row EXCEPT !.session = TRUE] /\ op' = Op("launch", "session")
    /\ UNCHANGED <<packet, run, journal, live, code, coord, runs, bounds>>

\* commitLaunchRun: the run now points at the invocation.
commitLaunchRun ==
    /\ coord = "ready" /\ op = Op("launch", "session")
    /\ run' = [run EXCEPT !.stage = row.role, !.status = "active", !.why = "",
                          !.testInv = @ \/ row.role = "test"]
    /\ op' = Idle
    /\ UNCHANGED <<packet, row, journal, live, code, coord, runs, bounds>>

\* rollbackLaunch: without a report the row is voided; the caller pauses.
rollbackLaunch ==
    /\ coord = "ready" /\ op.do = "launch" /\ op.at \in {"saved", "worker", "session"}
    /\ Faults(1)
    /\ row' = [row EXCEPT !.status = IF @ = "active" /\ row.report = "none"
                                      THEN "superseded" ELSE "cannot_proceed",
                          !.voided = row.report = "none"]
    /\ StopWorkers /\ run' = Stop(run) /\ op' = Idle
    /\ UNCHANGED <<packet, journal, code, coord, runs, turns, cmds>>

\* retainLaunchAfterHarnessFailure: no capacity, expired authentication or an
\* unexpected exit supersede the row and park the run.
retainLaunch ==
    /\ coord = "ready" /\ op = Op("launch", "worker") /\ Faults(1)
    /\ row' = [row EXCEPT !.status = "superseded"]
    /\ \/ Park("waiting_for_harness", "capacity")
       \/ Park("waiting_for_human", "resumable")
    /\ StopWorkers /\ op' = Idle
    /\ UNCHANGED <<packet, journal, code, coord, runs, turns, cmds>>

-----------------------------------------------------------------------------
(***************************************************************************)
(* The agent writes one report, and its process ends with it.              *)
(***************************************************************************)
MayReport(report) ==
    CASE report \in {"completed", "clarification", "cannot_proceed"} -> TRUE
      [] report = "objection" -> row.role = "implementation" /\ turns < MaxTurns
      [] report = "exemption" -> row.role = "test" /\ packet.technical /\ ~row.revision
      [] report = "rejected"  -> row.role = "test" /\ row.revision
      [] OTHER -> FALSE

\* A session that has reported may go on until its container is stopped.
Lingers == worker /\ row.report # "none" /\ op = Idle /\ run.stage # "draft_pr"

\* A test role that completes has written tests; an implementation that edits
\* test files does so behind the coordinator's back.
AgentReports ==
    /\ agent = "working"
    /\ \E report \in {"completed", "clarification", "cannot_proceed", "objection",
                       "exemption", "rejected"} :
        /\ MayReport(report)
        /\ row' = [row EXCEPT !.report = report]
        /\ turns' = IF report = "objection" THEN turns + 1 ELSE turns
        /\ tests' = IF row.role = "test" /\ report = "completed" THEN tests + 1 ELSE tests
    /\ agent' = "none"
    /\ UNCHANGED <<packet, run, journal, worker, red, op, coord, runs, faults, cmds>>

AgentTampers ==
    /\ row.role = "implementation" /\ turns < MaxTurns
    /\ agent = "working" \/ Lingers
    /\ tests' = tests + 1 /\ turns' = turns + 1
    /\ UNCHANGED <<packet, run, row, journal, live, red, op, coord, runs, faults, cmds>>

\* The process or its container is gone without a report.
AgentStops ==
    /\ agent = "working" /\ Faults(1) /\ agent' = "none" /\ worker' \in {worker, FALSE}
    /\ UNCHANGED <<packet, run, row, journal, code, op, coord, runs, turns, cmds>>

\* The agent deadline stops progression; the agent itself is not stopped.
agentInvocationExpired ==
    /\ Driving /\ Active /\ row.report = "none" /\ agent = "working" /\ Faults(1)
    /\ run' = Stop(run)
    /\ UNCHANGED <<packet, row, journal, live, code, op, coord, runs, turns, cmds>>

-----------------------------------------------------------------------------
(***************************************************************************)
(* Accepting a report.                                                     *)
(***************************************************************************)
acceptedInvocationStatus(report) ==
    CASE report = "clarification"  -> "waiting_for_human"
      [] report = "cannot_proceed" -> "cannot_proceed"
      [] OTHER                     -> "completed"

\* admitAcceptancePathOwnership and the objection's preconditions.
admitAcceptance ==
    /\ row.role = run.stage
    /\ row.role = "implementation" /\ run.handoff => tests = run.protected
    /\ row.report = "objection" =>
          /\ independentTestStageDeclared /\ run.skipped = ""
          /\ run.handoff /\ run.protected # 0 /\ run.testInv

\* agentReportRunProjection: the transition the registry declares.
agentReportRunProjection(r, report) ==
    CASE report = "clarification" ->
           [r EXCEPT !.status = "waiting_for_human", !.why = "", !.questions = TRUE]
      [] report = "cannot_proceed" -> [r EXCEPT !.status = "failed", !.why = ""]
      [] OTHER -> [r EXCEPT !.stage = IF @ = "architecture" THEN "test" ELSE "implementation"]

\* Mutant: every objection starts a count of its own.
projectUncountedObjection(r, d) ==
    [r EXCEPT !.stage = "test", !.objection = d, !.dispute = d, !.tries = 1,
              !.status = IF packet.automated THEN "active" ELSE "waiting_for_human",
              !.why = IF packet.automated THEN "" ELSE "policy"]

\* projectImplementationTestObjection: another dispute than the recorded one
\* starts a new count of revisions.
projectImplementationTestObjection(r, d) ==
    LET tried == IF r.dispute = d THEN r.tries ELSE 0
        go    == packet.automated /\ tried < packet.revisions
    IN  [r EXCEPT !.stage = "test", !.objection = d, !.skipped = "",
                  !.dispute = IF go THEN d ELSE IF tried = 0 THEN "" ELSE r.dispute,
                  !.tries = IF go THEN tried + 1 ELSE tried,
                  !.status = IF go THEN "active" ELSE "waiting_for_human",
                  !.why = IF go THEN "" ELSE "policy"]

\* AcceptResult stores row and run together; the test role's run transition
\* follows in a step of its own.
AcceptReport ==
    /\ Driving /\ Active /\ row.report # "none" /\ run.pending = 0 /\ admitAcceptance
    /\ row' = [row EXCEPT !.status = acceptedInvocationStatus(row.report)]
    /\ \/ /\ row.role = "test"
          /\ op' = Op("accepted", "policy") /\ UNCHANGED <<run, runs>>
       \/ /\ row.report = "objection"
          /\ \E d \in Disputes :
               /\ run' = projectImplementationTestObjection(run, d)
               /\ runs' = IF run.dispute = d THEN runs ELSE [runs EXCEPT !.revisions = 0]
          /\ op' = IF run'.status = "active" THEN Op("accepted", "next") ELSE Idle
       \/ /\ row.role # "test" /\ row.report # "objection"
          /\ run' = agentReportRunProjection(run, row.report)
          /\ op' = Idle /\ UNCHANGED runs
    /\ worker' = (worker /\ row.report \notin {"clarification", "objection"})
    /\ UNCHANGED <<packet, journal, agent, code, coord, bounds>>

\* A refused report leaves its row active and stops progression.
RefuseReport ==
    /\ Driving /\ run.pending = 0 /\ Active /\ row.report # "none" /\ ~admitAcceptance
    /\ run' = Stop(run)
    /\ UNCHANGED <<packet, row, journal, live, code, op, coord, runs, bounds>>

\* pauseTestForHuman marks the row, pauseTestRevisionForHuman only the run.
PauseTest ==
    /\ row' = IF run.objection = "" THEN [row EXCEPT !.status = "waiting_for_human"] ELSE row
    /\ Park("waiting_for_human", "policy")
    /\ StopWorkers /\ op' = Idle

\* acceptTestStageReport and acceptTestRevisionReport.
acceptTestStageReport ==
    /\ coord = "ready" /\ op = Op("accepted", "policy")
    /\ CASE row.report = "clarification" ->
              /\ run' = [run EXCEPT !.status = "waiting_for_human", !.why = "", !.questions = TRUE]
              /\ op' = Idle /\ UNCHANGED <<row, live, red>>
         [] row.report \in {"cannot_proceed", "rejected"} -> PauseTest /\ UNCHANGED red
         [] row.report = "exemption" ->
              /\ run' = [run EXCEPT !.stage = "implementation", !.skipped = "technical"]
              /\ StopWorkers /\ op' = Op("accepted", "next") /\ UNCHANGED <<row, red>>
         [] row.report = "completed" ->
              \/ /\ red' = red \cup {tests} /\ StopWorkers
                 /\ op' = Op("accepted", "red") /\ UNCHANGED <<run, row>>
              \/ PauseTest /\ UNCHANGED red
    /\ UNCHANGED <<packet, journal, tests, coord, runs, bounds>>

\* The journaled test checkpoint: the tests that were seen red become the
\* protected handoff.
CheckpointTests ==
    /\ coord = "ready" /\ op = Op("accepted", "red")
    /\ run' = [run EXCEPT !.handoff = TRUE, !.protected = tests, !.objection = "",
                          !.testInv = @ \/ run.objection # "",
                          !.stage = "implementation", !.status = "active", !.why = ""]
    /\ op' = Op("accepted", "next")
    /\ UNCHANGED <<packet, row, journal, live, code, coord, runs, bounds>>

\* The role of the new stage is launched at once; a refusal is an error, and
\* progression pauses the run.
LaunchNext ==
    /\ coord = "ready" /\ op = Op("accepted", "next")
    /\ IF PlanLaunch(run.stage)
       THEN SaveInvocation(run.stage) /\ UNCHANGED run
       ELSE run' = Stop(run) /\ op' = Idle /\ UNCHANGED row
    /\ UNCHANGED <<packet, journal, live, code, coord, runs, bounds>>

-----------------------------------------------------------------------------
(***************************************************************************)
(* Delivering the implementation: checkpoint, gates, draft pull request.   *)
(***************************************************************************)
Deliverable == \/ run.stage = "implementation" /\ row.role = "implementation"
                                               /\ row.status = "completed"
               \/ run.stage = "check"

\* Mutant: only a fresh implementation is compared with the protected tests.
validateFreshTests == run.stage = "implementation" /\ run.handoff => tests = run.protected

validateProtectedTestPaths == run.handoff => tests = run.protected

\* CreateDraftPullRequest up to the pushed checkpoint.  A repair that changed
\* nothing is refused.
CreateDraftPullRequest ==
    /\ Driving /\ ~Active /\ run.pending = 0 /\ Deliverable
    /\ \/ /\ validateProtectedTestPaths
          /\ run' = [run EXCEPT !.stage = "check"] /\ op' = Op("deliver", "gates")
       \/ /\ \/ ~validateProtectedTestPaths
             \/ run.stage = "implementation" /\ run.attempts > 0
          /\ run' = Stop(run) /\ UNCHANGED op
    /\ UNCHANGED <<packet, row, journal, live, code, coord, runs, bounds>>

\* runConfiguredGates, then decideCheckRepair on a failure.
RunGates ==
    /\ coord = "ready" /\ op = Op("deliver", "gates") /\ worker' = TRUE
    /\ \/ op' = Op("deliver", "pull_request") /\ UNCHANGED <<run, faults>>
       \/ /\ run.attempts < packet.repairs
          /\ op' = Op("repair", "start") /\ UNCHANGED <<run, faults>>
       \/ /\ run.attempts >= packet.repairs
          /\ Park("waiting_for_human", "policy") /\ op' = Idle /\ UNCHANGED faults
       \/ Park("waiting_for_human", "checks") /\ op' = Idle /\ Faults(1)
    /\ UNCHANGED <<packet, row, journal, agent, code, coord, runs, turns, cmds>>

OpenPullRequest ==
    /\ coord = "ready" /\ op = Op("deliver", "pull_request") /\ op' = Idle
    /\ \/ run' = [run EXCEPT !.stage = "draft_pr", !.why = ""] /\ UNCHANGED faults
       \/ run' = Stop(run) /\ Faults(1)
    /\ UNCHANGED <<packet, row, journal, live, code, coord, runs, turns, cmds>>

-----------------------------------------------------------------------------
(***************************************************************************)
(* startCheckRepair: the implementation's session is resumed with the      *)
(* failure.  The attempt is reserved before the native call and completed  *)
(* after it.                                                               *)
(***************************************************************************)
SaveRepairInvocation ==
    /\ coord = "ready" /\ op = Op("repair", "start")
    /\ IF row.role = "implementation" /\ row.session
       THEN /\ row' = [NoRow EXCEPT !.role = "implementation", !.status = "active",
                                    !.session = TRUE, !.native = TRUE, !.here = TRUE,
                                    !.repair = TRUE]
            /\ op' = Op("repair", "saved") /\ UNCHANGED run
       ELSE Park("waiting_for_human", "policy") /\ op' = Idle /\ UNCHANGED row
    /\ UNCHANGED <<packet, journal, live, code, coord, runs, bounds>>

StartRepairWorker ==
    /\ coord = "ready" /\ op = Op("repair", "saved")
    /\ worker' = TRUE /\ op' = Op("repair", "worker")
    /\ UNCHANGED <<packet, run, row, journal, agent, code, coord, runs, bounds>>

ReserveAttempt ==
    /\ coord = "ready" /\ op = Op("repair", "worker")
    /\ run' = [run EXCEPT !.stage = "implementation", !.pending = run.attempts + 1]
    /\ op' = Op("repair", "reserved")
    /\ UNCHANGED <<packet, row, journal, live, code, coord, runs, bounds>>

\* ResumeHarness journals the resume before the native call.
JournalRepairResume ==
    /\ coord = "ready" /\ op = Op("repair", "reserved")
    /\ row' = [row EXCEPT !.resumes = @ + 1] /\ journal' = TRUE
    /\ op' = Op("repair", "journaled")
    /\ UNCHANGED <<packet, run, live, code, coord, runs, bounds>>

ResumeForRepair ==
    /\ coord = "ready" /\ op = Op("repair", "journaled")
    /\ agent' = "working" /\ row' = [row EXCEPT !.calls = @ + 1] /\ journal' = FALSE
    /\ runs' = [runs EXCEPT !.repairs = @ + 1]
    /\ op' = Op("repair", "resumed")
    /\ UNCHANGED <<packet, run, worker, code, coord, bounds>>

\* Mutant: a completed attempt is not counted.
completedUncounted(r) == [r EXCEPT !.pending = 0]

completedAttempt(r) == [r EXCEPT !.attempts = r.pending, !.pending = 0]

CompleteAttempt ==
    /\ coord = "ready" /\ op = Op("repair", "resumed")
    /\ run' = completedAttempt(run) /\ op' = Idle
    /\ UNCHANGED <<packet, row, journal, live, code, coord, runs, bounds>>

\* rollbackCheckRepair before the native call: the run is written back, the
\* row closed, and routeCheckRepair parks the run at its checks.
rollbackCheckRepair ==
    /\ coord = "ready" /\ op.do = "repair" /\ op.at \in {"saved", "worker", "reserved"}
    /\ Faults(1)
    /\ row' = [row EXCEPT !.status = "cannot_proceed"]
    /\ run' = [run EXCEPT !.stage = "check", !.pending = 0,
                          !.status = "waiting_for_human", !.why = "checks"]
    /\ StopWorkers /\ op' = Idle
    /\ UNCHANGED <<packet, journal, code, coord, runs, turns, cmds>>

-----------------------------------------------------------------------------
(***************************************************************************)
(* Resuming a stored session: the worker is made anew, the resume counted  *)
(* and journaled, then the harness called.                                 *)
(***************************************************************************)
\* Mutant: the resume is not counted.
ReserveUncounted(r, how) ==
    /\ row' = [r EXCEPT !.here = TRUE]
    /\ worker' = TRUE /\ agent' = "none" /\ journal' = TRUE
    /\ op' = Op("resume", how)

ReserveResume(r, how) ==
    /\ row' = [r EXCEPT !.resumes = @ + 1, !.here = TRUE]
    /\ worker' = TRUE /\ agent' = "none" /\ journal' = TRUE
    /\ op' = Op("resume", how)

\* completePendingCheckRepair follows an automatic resume in the same pass.
NativeResume ==
    /\ coord = "ready" /\ op.do = "resume"
    /\ agent' = IF row.report = "none" THEN "working" ELSE "none"
    /\ journal' = FALSE /\ op' = Idle
    /\ row' = IF op.at = "automatic" THEN [row EXCEPT !.calls = @ + 1] ELSE row
    /\ runs' = IF op.at = "automatic" /\ row.repair /\ row.calls = 0
               THEN [runs EXCEPT !.repairs = @ + 1] ELSE runs
    /\ LET r == [run EXCEPT !.status = "active", !.why = ""]
       IN  run' = IF op.at = "automatic" /\ run.status = "active" /\ r.pending # 0
                  THEN completedAttempt(r) ELSE r
    /\ UNCHANGED <<packet, worker, code, coord, bounds>>

\* A classified refusal parks the run and drops the reservation.
RefusedResume ==
    /\ coord = "ready" /\ op.do = "resume" /\ Faults(1)
    /\ \/ Park("waiting_for_harness", "capacity")
       \/ Park("waiting_for_human", "resumable")
       \/ Park("waiting_for_human", "recovery")
    /\ journal' = FALSE /\ StopWorkers /\ op' = Idle
    /\ UNCHANGED <<packet, row, code, coord, runs, turns, cmds>>

\* hasRecoverableInvocationLoss: the container is gone, or its session ended
\* without a report.
Lost(r) == ~worker \/ (agent = "none" /\ r.report = "none")

\* reconcileActiveHarnessLiveness: a dead session parks the run by its class,
\* or is resumed once and afterwards left to a person.
reconcileActiveHarnessLiveness ==
    /\ Driving /\ Active /\ row.session /\ agent = "none" /\ row.report = "none"
    /\ \/ Park("waiting_for_harness", "capacity") /\ StopWorkers /\ UNCHANGED <<row, journal, op>>
       \/ Park("waiting_for_human", "resumable") /\ StopWorkers /\ UNCHANGED <<row, journal, op>>
       \/ row.resumes = 0 /\ ReserveResume(row, "automatic") /\ UNCHANGED run
    /\ UNCHANGED <<packet, code, coord, runs, bounds>>

\* retryWaitingForHarness, tried by every poll.
retryWaitingForHarness ==
    /\ coord = "ready" /\ op = Idle /\ run.status = "waiting_for_harness"
    /\ \/ /\ Active /\ row.session /\ row.resumes > 0
          /\ Park("waiting_for_human", "resumable") /\ StopWorkers /\ UNCHANGED <<row, journal, op>>
       \/ /\ Active /\ row.session /\ row.resumes = 0
          /\ ReserveResume(row, "automatic") /\ UNCHANGED run
       \/ /\ ~Active /\ PlanLaunch(run.stage)
          /\ SaveInvocation(run.stage) /\ UNCHANGED <<run, live, journal>>
    /\ UNCHANGED <<packet, code, coord, runs, bounds>>

-----------------------------------------------------------------------------
(***************************************************************************)
(* Restart.  The new process knows only what is stored.                    *)
(***************************************************************************)
Crash ==
    /\ coord # "down" /\ Faults(1)
    /\ coord' = "down" /\ op' = Idle
    /\ \/ UNCHANGED live                               \* the process stopped
       \/ StopWorkers                                  \* the host stopped
       \/ /\ journal /\ op # Idle /\ agent' = IF row.report = "none" THEN "working" ELSE "none"
          /\ UNCHANGED worker                          \* after an unrecorded native call
    /\ row' = [row EXCEPT !.here = FALSE]
    /\ UNCHANGED <<packet, run, journal, code, runs, turns, cmds>>

Restart ==
    /\ coord = "down" /\ coord' = "starting"
    /\ UNCHANGED <<packet, run, row, journal, live, code, op, runs, bounds>>

\* recoverHeadlessNativeSessionIdentities: the harness knows the sessions whose
\* row was not stored.
Recovered == [row EXCEPT !.session = @ \/ (Active /\ row.native)]

\* invocationProjectionNeverEstablished
NeverEstablished(r) ==
    /\ ~r.session /\ r.report = "none"
    /\ r.status = "cannot_proceed" \/ (r.status = "superseded" /\ r.voided)

\* completedInvocationProjectionExpectedStopped, workerProjectionExpectedStopped
CompletedExpectedStopped(r) ==
    /\ r.status # "active" /\ r.role = "implementation" /\ run.stage \in {"check", "draft_pr"}
WorkerExpectedStopped(r) ==
    r.status # "active" /\ (run.stage = "check" \/ run.status = "waiting_for_human")

\* inspectInvocationProjection: a difference a restart cannot repair itself.
Discrepancy(r) ==
    /\ r.role # "none" /\ ~NeverEstablished(r)
    /\ \/ ~r.session
       \/ /\ r.status # "active" /\ ~CompletedExpectedStopped(r)
          /\ worker = WorkerExpectedStopped(r)

\* pauseForRecovery
PauseForRecovery ==
    /\ run' = [run EXCEPT !.status = "waiting_for_human", !.why = "recovery"]
    /\ StopWorkers

Starting == coord = "starting" /\ coord' = "ready"

\* A native resume that was reserved may have happened: it is never repeated.
ReplayReservedResume ==
    /\ Starting /\ journal /\ journal' = FALSE
    /\ row' = Recovered /\ PauseForRecovery
    /\ UNCHANGED <<packet, code, op, runs, bounds>>

\* A parked or ended run is left as it is, a discrepancy waits for a person, a
\* session that lost its coordinator is resumed once, and a reserved repair
\* attempt is completed when its session runs.
Reconcile ==
    /\ Starting /\ ~journal
    /\ IF run.status = "waiting_for_harness" \/ Terminal(run.status)
       THEN row' = Recovered /\ UNCHANGED <<run, live, journal, op>>
       ELSE IF Discrepancy(Recovered)
       THEN row' = Recovered /\ PauseForRecovery /\ UNCHANGED <<journal, op>>
       ELSE IF run.status = "active" /\ Active /\ row.resumes = 0
       THEN ReserveResume(Recovered, "automatic") /\ UNCHANGED run
       ELSE IF run.status = "active" /\ Active /\ Lost(row)
       THEN row' = Recovered /\ Park("waiting_for_human", "resumable") /\ StopWorkers
            /\ UNCHANGED <<journal, op>>
       ELSE IF run.pending # 0 /\ ~Active
       THEN row' = Recovered /\ PauseForRecovery /\ UNCHANGED <<journal, op>>
       ELSE /\ run' = IF run.pending # 0 /\ row.resumes > 0 THEN completedAttempt(run) ELSE run
            /\ row' = Recovered /\ UNCHANGED <<live, journal, op>>
    /\ UNCHANGED <<packet, code, runs, bounds>>

\* A classified exit of the session parks the run instead.
ReconcileDeadSession ==
    /\ Starting /\ ~journal /\ Active /\ Recovered.session
    /\ run.status \in {"active", "waiting_for_human"} /\ worker
    /\ agent = "none" /\ row.report = "none"
    /\ \/ Park("waiting_for_harness", "capacity")
       \/ Park("waiting_for_human", "resumable")
    /\ row' = Recovered /\ StopWorkers
    /\ UNCHANGED <<packet, journal, code, op, runs, bounds>>

-----------------------------------------------------------------------------
(***************************************************************************)
(* Commands of the maintainer, serialized with the coordinator's steps.    *)
(***************************************************************************)
Commanded == coord = "ready" /\ op = Idle /\ cmds < MaxCommands /\ cmds' = cmds + 1

\* handleAnswerCommand: a new packet version, and the run restarts at the role
\* that owns it.
Answer ==
    /\ Commanded /\ run.questions /\ run.status = "waiting_for_human"
    /\ run' = [resetTestProjection(run) EXCEPT
                  !.stage = packetResumeStage(run), !.status = "active",
                  !.why = "", !.questions = FALSE]
    /\ row' = [row EXCEPT !.status = IF @ = "none" THEN @ ELSE "superseded"]
    /\ IF Active THEN StopWorkers ELSE UNCHANGED live
    /\ op' = IF run'.stage = "claim" THEN Idle ELSE Op("accepted", "next")
    /\ runs' = [runs EXCEPT !.revisions = 0] /\ red' = {}
    /\ UNCHANGED <<packet, journal, tests, coord, turns, faults>>

\* isCheckContinuationPause
CheckContinuation == run.stage = "check" /\ run.why \in {"recovery", "checks"}

\* supersedeInvocation: an active row without a session is given up.
GivenUp == IF Active /\ ~row.session THEN [row EXCEPT !.status = "superseded"] ELSE row

\* factory resume: the active session is resumed, its checks are retried, or
\* the role of the stage is launched.  A launch that is refused leaves the row
\* given up.
Resume ==
    /\ Commanded /\ ~Terminal(run.status) /\ run.stage # "draft_pr"
    /\ \/ Active /\ row.session /\ ReserveResume(row, "manual") /\ UNCHANGED run
       \/ /\ ~(Active /\ row.session) /\ CheckContinuation /\ run.pending = 0 /\ ~run.questions
          /\ run' = [run EXCEPT !.status = "active", !.why = ""]
          /\ row' = GivenUp /\ UNCHANGED <<live, journal, op>>
       \/ /\ ~(Active /\ row.session) /\ ~CheckContinuation
          /\ IF PlanLaunchAfter(GivenUp, run.stage)
             THEN SaveInvocation(run.stage) ELSE row' = GivenUp /\ UNCHANGED op
          /\ UNCHANGED <<run, live, journal>>
    /\ UNCHANGED <<packet, code, coord, runs, turns, faults>>

\* handleRetryCommand: a failed run, or one whose launch never established.
Retry ==
    /\ Commanded
    /\ \/ run.status = "failed" /\ UNCHANGED row
       \/ /\ run.status = "waiting_for_human" /\ ~Active /\ row.role # "none"
          /\ ~row.session /\ row.report = "none"
          /\ row.status = "cannot_proceed" \/ row.voided
          /\ row' = [row EXCEPT !.status = "superseded", !.voided = TRUE]
    /\ run' = [run EXCEPT !.status = "active", !.why = ""]
    /\ UNCHANGED <<packet, journal, live, code, op, coord, runs, turns, faults>>

\* factory agent-report on an invocation whose acceptance was interrupted.
RepeatReport ==
    /\ Commanded /\ ~Active /\ row.role = "test" /\ row.report # "none"
    /\ run.status = "active" /\ run.stage = "test"
    /\ row.status \in {"completed", "waiting_for_human", "cannot_proceed"}
    /\ op' = Op("accepted", "policy")
    /\ UNCHANGED <<packet, run, row, journal, live, code, coord, runs, turns, faults>>

Cancel ==
    /\ Commanded /\ ~Terminal(run.status)
    /\ run' = [run EXCEPT !.status = "cancelled", !.why = ""] /\ StopWorkers
    /\ UNCHANGED <<packet, row, journal, code, op, coord, runs, turns, faults>>

\* A run whose repair attempt is pending waits for reconciliation.
StopPendingAttempt ==
    /\ Driving /\ run.pending # 0 /\ run' = Stop(run)
    /\ UNCHANGED <<packet, row, journal, live, code, op, coord, runs, bounds>>

-----------------------------------------------------------------------------
Launching  == StartAgent \/ StartWorker \/ StartHarness \/ SaveSession \/ commitLaunchRun
Accepting  == AcceptReport \/ RefuseReport \/ acceptTestStageReport \/ CheckpointTests \/ LaunchNext
Delivering == CreateDraftPullRequest \/ RunGates \/ OpenPullRequest
Repairing  == SaveRepairInvocation \/ StartRepairWorker \/ ReserveAttempt
              \/ JournalRepairResume \/ ResumeForRepair \/ CompleteAttempt
Recovering == NativeResume \/ reconcileActiveHarnessLiveness \/ retryWaitingForHarness
              \/ Restart \/ ReplayReservedResume \/ Reconcile \/ ReconcileDeadSession

\* What the coordinator does on its own.
Coordinate == RunBaseline \/ Launching \/ Accepting \/ Delivering \/ Repairing
              \/ Recovering \/ StopPendingAttempt

Failing == rollbackLaunch \/ retainLaunch \/ rollbackCheckRepair \/ RefusedResume
           \/ AgentStops \/ agentInvocationExpired \/ Crash

Commands == Answer \/ Resume \/ Retry \/ RepeatReport \/ Cancel

Next == Coordinate \/ AgentReports \/ AgentTampers \/ Failing \/ Commands

\* The supervisor polls and restarts the coordinator, and an agent ends: its
\* deadline is the last resort.
Spec == Init /\ [][Next]_vars /\ WF_vars(Coordinate) /\ WF_vars(AgentReports)

-----------------------------------------------------------------------------
TypeOK ==
    /\ packet \in Packets /\ run \in RunRows /\ row \in Rows /\ op \in Ops
    /\ journal \in BOOLEAN /\ worker \in BOOLEAN /\ agent \in {"none", "working"}
    /\ tests \in Nat /\ red \subseteq Nat /\ coord \in {"down", "starting", "ready"}
    /\ runs \in [repairs : Nat, revisions : Nat]
    /\ turns \in 0 .. MaxTurns /\ faults \in 0 .. MaxFaults /\ cmds \in 0 .. MaxCommands

\* The tests under a delivered implementation are, to the byte, tests that a red
\* run confirmed for the packet as it now stands, whatever edits, objections,
\* revisions, repairs, answers and restarts lie between (draft_pr.go:119,
\* test_stage.go:671, command.go:978).
DeliveredTestsAreProtected ==
    run.stage = "draft_pr" /\ run.handoff =>
        run.protected = tests /\ run.protected \in red

\* However often the process stops, an invocation's session is continued
\* automatically at most once (docs/configuration.md:846, recovery.go).
ResumedOnce == row.calls <= 1

\* Every native repair session is a counted attempt within the budget, the one
\* whose attempt is still reserved, or the work of a process that stopped
\* between a repair's row and its reservation: that session is continued by the
\* restart, uncounted, once per stop (repair.go:667).
RepairsAreCounted ==
    /\ runs.repairs <= run.attempts + faults
                         + (IF run.pending # 0 \/ op.do = "repair" THEN 1 ELSE 0)
    /\ run.attempts <= packet.repairs

\* The coordinator starts no more revisions of a disputed test by itself than
\* the packet allows; a stop between a revision's acceptance and its policy
\* repeats that revision (report_acceptance.go:309, docs/configuration.md).
RevisionsWithinBudget == runs.revisions <= packet.revisions + faults

\* What the coordinator starts by itself stays bounded: automatic resumes of a
\* session, repairs of a failing check, revisions of a disputed test.
AutomaticWorkIsBounded == ResumedOnce /\ RepairsAreCounted /\ RevisionsWithinBudget

\* A run that was accepted from its test role goes on: it never waits with a
\* completed test report that no step can take up again
\* (report_acceptance.go:305-308).
AcceptedTestsGoOn ==
    run.stage = "test" /\ run.status = "waiting_for_human" /\ run.objection = "" =>
        ~(row.role = "test" /\ row.status = "completed" /\ row.report = "completed")

\* publishProgressionStop: a run never stays active, with its agent-running
\* label, while nobody works on it.
RunSettles == <>[](run.status # "active" \/ run.stage = "draft_pr")

=============================================================================
