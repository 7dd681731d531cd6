------------------------------ MODULE GateSuite ------------------------------
(***************************************************************************)
(* The deterministic gates of a run: gate.Runner executes setup and the    *)
(* declared gates in the worker and publishes one commit status per gate   *)
(* (internal/gate), the coordinator keeps the results by phase and exact   *)
(* checkpoint and decides from them what the run does next                 *)
(* (internal/factory gate.go, draft_pr.go, repair.go), and the onboarding  *)
(* proof judges the same suite without a run (internal/gateproof).         *)
(*                                                                         *)
(* Two processes can evaluate one run at a time: the polling coordinator   *)
(* and an operator command (factory issue, factory draft-pr) that takes no *)
(* coordinator lock.  They share the run row, whose writes compare the     *)
(* revision, and the result rows and commit statuses, whose writes do not. *)
(***************************************************************************)
EXTENDS Naturals, FiniteSets, Sequences

CONSTANTS NGates,         \* number of declared gates
          Policies,       \* the frozen packets considered, see PolicyOK
          Runners,        \* the processes that may evaluate the run
          MaxCheckpoints, \* bound: checkpoints the run's agents produce
          MaxSuites,      \* bound: suites started in each phase
          MaxFaults       \* bound: failed calls, failed writes and crashes

Gates == 1..NGates
Phases == {"baseline", "checkpoint"}

\* One frozen specification packet: which gates block, which gates a gate
\* depends on (declared earlier), whether setup files are configured, and the
\* factory-baseline-target markers of the issue body.
PolicyOK(p) ==
    /\ p.blocking \subseteq Gates
    /\ p.needs \in [Gates -> SUBSET Gates]
    /\ \A g \in Gates : \A d \in p.needs[g] : d < g
    /\ p.files \in BOOLEAN
    /\ p.targets \subseteq Gates \cup {0}       \* 0 is the setup marker

ASSUME GateAssumption ==
    /\ NGates \in Nat \ {0}
    /\ MaxCheckpoints \in Nat \ {0}
    /\ MaxSuites \in [Phases -> Nat] /\ MaxFaults \in Nat
    /\ \A p \in Policies : PolicyOK(p)

-----------------------------------------------------------------------------
(***************************************************************************)
(* How one worker command can end.  "error" stands for an error of the     *)
(* worker, "late_error" for its typed output-limit or out-of-memory error  *)
(* returned after the command's deadline, "unconfirmed" for a cancelled    *)
(* command that may still run.                                             *)
(***************************************************************************)
Commands == {"pass", "fail", "timeout", "error", "late_error", "unconfirmed"}

TimedOut(c) == c \in {"timeout", "late_error"}

NotRun == [outcome |-> "none", status |-> "none"]
Result(outcome, status) == [outcome |-> outcome, status |-> status]
Outcomes == {"none", "passed", "failed", "error", "skipped", "setup_failed"}
Statuses == {"none", "success", "failure", "error", "pending"}
Results  == [outcome : Outcomes, status : Statuses]

\* The result of a gate whose command ended with c.
runDeclaredGate(c) ==
    CASE c = "pass"  -> Result("passed", "success")
      [] c = "fail"  -> Result("failed", "failure")
      [] TimedOut(c) -> Result("failed", "failure")
      [] OTHER       -> Result("error", "error")

\* What joins the error of a suite.
FailureKinds == {"command", "runtime", "unconfirmed", "setup_exit", "setup_error",
                 "dependency", "publication", "unavailable"}

\* The failure a gate command adds to the suite, none for a pass.
GateFailure(c) ==
    CASE c = "pass"                   -> {}
      [] c = "fail" \/ TimedOut(c)    -> {"command"}
      [] c = "unconfirmed"            -> {"unconfirmed"}
      [] OTHER                        -> {"runtime"}

SetupFailure(c) ==
    CASE c = "fail"        -> {"setup_exit"}
      [] c = "unconfirmed" -> {"setup_error", "unconfirmed"}
      [] OTHER             -> {"setup_error"}

terminationUnconfirmed(failure) == "unconfirmed" \in failure

\* Mutant: a worker error is a command failure too.
isAnyCheckFailure(failures, saved) ==
    /\ saved = "stored"
    /\ failures \subseteq {"command", "runtime", "setup_exit", "setup_error", "dependency"}
    /\ failures # {}

\* isRepairableCheckFailure: only typed command failures, and at least one;
\* a joined persistence error is no typed suite failure.
isRepairableCheckFailure(failures, saved) ==
    /\ saved = "stored"
    /\ failures \subseteq {"command", "setup_exit", "dependency"}
    /\ failures \cap {"command", "setup_exit"} # {}

-----------------------------------------------------------------------------
(***************************************************************************)
(* The onboarding proof classifies the recorded commands on its own and    *)
(* promises the verdict of final readiness.                                *)
(***************************************************************************)
commandOutcome(c) ==
    CASE c = "pass"                       -> "passed"
      [] c = "fail"                       -> "failed"
      [] c = "unconfirmed"                -> "termination_unconfirmed"
      [] c = "timeout"                    -> "timed_out"
      [] c = "late_error"                 -> "output_limit_exceeded"
      [] OTHER                            -> "error"

\* Mutant: an advisory gate may end in any error but a skip.
acceptedLoosely(outcome, blocking) ==
    outcome = "passed" \/ (~blocking /\ outcome # "skipped")

accepted(outcome, blocking) ==
    outcome = "passed" \/ (~blocking /\ outcome \in {"failed", "timed_out"})

\* summarize walks the results and takes the next recorded command for every
\* gate that ran.
summarize(suite, g) ==
    LET ran(h) == suite.results[h].outcome \notin {"skipped", "setup_failed"}
        next   == Cardinality({h \in 1..g : ran(h)}) + (IF suite.skip THEN 0 ELSE 1)
    IN  CASE ~ran(g) -> suite.results[g].outcome
          [] ran(g) /\ next <= Len(suite.calls) -> commandOutcome(suite.calls[next])
          [] OTHER -> "error"

verdict(suite, blocking) ==
    /\ ~suite.skip => commandOutcome(suite.calls[1]) = "passed"
    /\ \A g \in Gates : accepted(summarize(suite, g), g \in blocking)

-----------------------------------------------------------------------------
VARIABLES policy,  \* the frozen packet
          run,     \* run row: stage and revision
          ck,      \* checkpoint_sha of the run row, numbered
          suites,  \* per process, the suite it evaluates
          rows,    \* gate_results table: phase, checkpoint, gate
          host,    \* commit statuses on the code host: phase, checkpoint, gate
          passes,  \* history: phase, checkpoint, gate of commands that exited 0
          setups,  \* history: phase, checkpoint whose setup command exited 0
          started, \* suites started in each phase (bound)
          faults   \* lost calls, lost writes and crashes so far (bound)

bounds == <<started, faults>>
vars == <<policy, run, ck, suites, rows, host, passes, setups, bounds>>

\* claim: the baseline is due.  preflight: the failed preflight.
\* implementation: agents work on the checkpoint.  check: its suite is due.
\* paused: check, waiting for a human.  draft_pr: the draft pull request is
\* open.  ready: it is ready for human review.
Stages == {"claim", "preflight", "implementation", "check", "paused",
           "draft_pr", "ready"}
Active == Stages \ {"preflight", "ready"}

NoSuite == [phase |-> "none"]

\* A suite: purpose "run" decides about the run, "gate" (RunGate) does not.
\* next is the next gate to take, 0 while setup is due.
Fresh(purpose, phase, plan, skip) ==
    [phase |-> phase, purpose |-> purpose, ck |-> ck, rev |-> run.rev,
     plan |-> plan, skip |-> skip, next |-> IF skip THEN 1 ELSE 0,
     results |-> [g \in Gates |-> NotRun], failures |-> {}, failed |-> {},
     halted |-> FALSE, calls |-> <<>>, saved |-> "no"]

Suites == [phase : Phases, purpose : {"run", "gate"}, ck : 1..MaxCheckpoints,
           rev : Nat, plan : SUBSET Gates, skip : BOOLEAN, next : 0..NGates + 1,
           results : [Gates -> Results], failures : SUBSET FailureKinds,
           failed : SUBSET Gates, halted : BOOLEAN, calls : Seq(Commands),
           saved : {"no", "stored", "stored_with_error", "lost"}]

Stored(phase) == rows[phase][ck]

\* Mutant: any stored result stands for a successful setup.
setupAlreadyRan(phase) ==
    policy.files /\ \E g \in Gates : Stored(phase)[g] # NotRun

\* setupAlreadySucceeded: results of this exact phase and checkpoint exist and
\* none of them says that setup failed.  Without setup files nothing is reused.
setupAlreadySucceeded(phase) ==
    /\ policy.files
    /\ \E g \in Gates : Stored(phase)[g] # NotRun
    /\ \A g \in Gates : Stored(phase)[g].outcome # "setup_failed"

\* gateDependencyPlan: the gate and everything it depends on.
gateDependencyPlan(target) ==
    LET close[n \in 0..NGates] ==
          IF n = 0 THEN {target}
          ELSE close[n - 1] \cup UNION {policy.needs[g] : g \in close[n - 1]}
    IN  close[NGates]

Init ==
    /\ policy \in Policies
    /\ run = [stage |-> "claim", rev |-> 0]
    /\ ck = 1
    /\ suites = [r \in Runners |-> NoSuite]
    /\ rows = [p \in Phases |-> [c \in 1..MaxCheckpoints |-> [g \in Gates |-> NotRun]]]
    /\ host = [p \in Phases |-> [c \in 1..MaxCheckpoints |-> [g \in Gates |-> "none"]]]
    /\ passes = {} /\ setups = {} /\ started = [p \in Phases |-> 0] /\ faults = 0

\* A call, a write or a process may fail while the bound allows it.
Fails(fault) ==
    /\ fault => faults < MaxFaults
    /\ faults' = IF fault THEN faults + 1 ELSE faults

Begin(r, purpose, phase, plan) ==
    /\ suites[r] = NoSuite /\ started[phase] < MaxSuites[phase]
    /\ suites' = [suites EXCEPT ![r] =
                    Fresh(purpose, phase, plan, setupAlreadySucceeded(phase))]
    /\ started' = [started EXCEPT ![phase] = @ + 1]
    /\ UNCHANGED <<policy, run, ck, rows, host, passes, setups, faults>>

\* RunBaseline of a claimed run: all gates, before any agent edits.
RunBaseline(r) == run.stage = "claim" /\ Begin(r, "run", "baseline", Gates)

\* The check part of CreateDraftPullRequest: all gates at the run's checkpoint.
runConfiguredGates(r) == run.stage = "check" /\ Begin(r, "run", "checkpoint", Gates)

\* RunGate: one gate of an active run and what it depends on.
RunGate(r, g) ==
    /\ run.stage \in Active
    /\ Begin(r, "gate", "checkpoint", gateDependencyPlan(g))

-----------------------------------------------------------------------------
(***************************************************************************)
(* gate.Runner.RunSuite, one command at a time.  Every result is appended  *)
(* to the suite and its status is published; a publication that fails      *)
(* joins the failures and leaves the host as it was.                       *)
(***************************************************************************)
Publish(s, results, published) ==
    host' = [host EXCEPT ![s.phase][s.ck] =
               [g \in Gates |-> IF g \in published THEN results[g].status ELSE @[g]]]

\* The worker could not be prepared or started: no gate has a result.
SuiteUnavailable(r) ==
    /\ suites[r] # NoSuite /\ suites[r].calls = <<>> /\ suites[r].saved = "no"
    /\ \A g \in Gates : suites[r].results[g] = NotRun
    /\ suites' = [suites EXCEPT ![r].next = NGates + 1, ![r].saved = "stored",
                                ![r].failures = {"unavailable"}]
    /\ Fails(TRUE)
    /\ UNCHANGED <<policy, run, ck, rows, host, passes, setups, started>>

RunSetup(r) ==
    LET s == suites[r] IN
    /\ s # NoSuite /\ s.next = 0
    /\ \/ /\ suites' = [suites EXCEPT ![r].next = 1, ![r].calls = <<"pass">>]
          /\ setups' = setups \cup {<<s.phase, s.ck>>}
          /\ UNCHANGED <<host, faults>>
       \/ \E c \in Commands \ {"pass"}, published \in SUBSET s.plan :
            LET results == [g \in Gates |-> IF g \in s.plan
                              THEN Result("setup_failed", "error") ELSE NotRun]
            IN  /\ suites' = [suites EXCEPT ![r].next = NGates + 1,
                     ![r].calls = <<c>>, ![r].results = results,
                     ![r].failures = SetupFailure(c) \cup
                        (IF published = s.plan THEN {} ELSE {"publication"})]
                /\ Publish(s, results, published)
                /\ Fails(published # s.plan)
          /\ UNCHANGED setups
    /\ UNCHANGED <<policy, run, ck, rows, passes, started>>

\* recordGate with the failures the gate itself adds.
recordGate(r, g, result, failures, failed, halted, calls, published) ==
    LET s == suites[r]
        results == [s.results EXCEPT ![g] = result]
    IN  /\ suites' = [suites EXCEPT ![r] = [s EXCEPT
               !.next = g + 1, !.results = results, !.calls = calls,
               !.failures = @ \cup failures \cup
                            (IF published THEN {} ELSE {"publication"}),
               !.failed = IF failed THEN @ \cup {g} ELSE @,
               !.halted = halted]]
        /\ Publish(s, results, IF published THEN {g} ELSE {})
        /\ Fails(~published)

\* After an unconfirmed termination no later gate may overlap the command.
HaltedGate(r, g) ==
    /\ g \in suites[r].plan /\ suites[r].halted
    /\ \E published \in BOOLEAN :
         recordGate(r, g, Result("skipped", "pending"), {}, FALSE, TRUE,
                    suites[r].calls, published)
    /\ UNCHANGED passes

\* failedDependency: a gate whose prerequisite failed is skipped.
SkippedGate(r, g) ==
    /\ g \in suites[r].plan /\ ~suites[r].halted
    /\ policy.needs[g] \cap suites[r].failed # {}
    /\ \E published \in BOOLEAN :
         recordGate(r, g, Result("skipped", "pending"),
                    IF g \in policy.blocking THEN {"dependency"} ELSE {},
                    TRUE, FALSE, suites[r].calls, published)
    /\ UNCHANGED passes

ExecutedGate(r, g) ==
    /\ g \in suites[r].plan /\ ~suites[r].halted
    /\ policy.needs[g] \cap suites[r].failed = {}
    /\ \E c \in Commands, published \in BOOLEAN :
         LET failure == GateFailure(c)
             halted  == terminationUnconfirmed(failure)
         IN /\ recordGate(r, g, runDeclaredGate(c),
                 IF g \in policy.blocking \/ halted THEN failure ELSE {},
                 failure # {}, halted, Append(suites[r].calls, c), published)
            /\ passes' = IF c = "pass"
                         THEN passes \cup {<<suites[r].phase, suites[r].ck, g>>}
                         ELSE passes

\* The gates the suite has still to take, in declared order.
Due(s) == {g \in s.plan : g >= s.next}

RunNextGate(r) ==
    /\ suites[r] # NoSuite /\ suites[r].next > 0
    /\ \E g \in Due(suites[r]) :
         /\ \A h \in Due(suites[r]) : g <= h
         /\ HaltedGate(r, g) \/ SkippedGate(r, g) \/ ExecutedGate(r, g)
    /\ UNCHANGED <<policy, run, ck, rows, setups, started>>

-----------------------------------------------------------------------------
(***************************************************************************)
(* persistGateSuite saves the rows of the suite in one transaction;        *)
(* refreshing the evaluation counts afterwards can still fail.  Only then  *)
(* is the suite judged, from the run row read before it began.             *)
(***************************************************************************)
Finished(s) == s # NoSuite /\ s.next > 0 /\ Due(s) = {}

\* One transaction replaces the rows of the gates the suite took and keeps the
\* others of the same checkpoint and phase.
saveGateResults(s) ==
    rows' = [rows EXCEPT ![s.phase][s.ck] =
               [g \in Gates |-> IF g \in s.plan THEN s.results[g] ELSE @[g]]]

persistGateSuite(r) ==
    LET s == suites[r] IN
    /\ Finished(s) /\ s.saved = "no"
    /\ \E saved \in {"stored", "stored_with_error", "lost"} :
         /\ suites' = [suites EXCEPT ![r].saved = saved]
         /\ Fails(saved # "stored")
         /\ IF saved = "lost" THEN UNCHANGED rows ELSE saveGateResults(s)
    /\ UNCHANGED <<policy, run, ck, host, passes, setups, started>>

HasSetupFailure(results) == \E g \in Gates : results[g].outcome = "setup_failed"
Unhealthy(results) ==
    {g \in policy.blocking : results[g].outcome \in
                               {"failed", "error", "skipped", "setup_failed"}}

baselineSetupTargeted == 0 \in policy.targets

\* Every blocking failure is named by a marker; the setup marker also covers
\* gates that setup kept from running.
baselineFailureTargeted(results) ==
    /\ Unhealthy(results) # {}
    /\ \A g \in Unhealthy(results) :
         \/ g \in policy.targets
         \/ results[g].outcome = "setup_failed" /\ baselineSetupTargeted

\* Mutant: a marker accepts whatever accompanies the failures.
baselineFailureAccepted(s) ==
    \/ baselineFailureTargeted(s.results)
    \/ HasSetupFailure(s.results) /\ baselineSetupTargeted

\* A marker accepts gate, setup and dependency failures and nothing that
\* accompanies them.
baselineFailureErrorTargeted(s) ==
    /\ \/ baselineFailureTargeted(s.results)
       \/ HasSetupFailure(s.results) /\ baselineSetupTargeted
    /\ s.failures \subseteq {"command", "runtime", "setup_exit", "setup_error",
                             "dependency"}

Judged(r, purpose, phase) ==
    /\ suites[r] # NoSuite /\ suites[r].saved # "no"
    /\ suites[r].purpose = purpose /\ suites[r].phase = phase
    /\ suites' = [suites EXCEPT ![r] = NoSuite]
    /\ UNCHANGED <<policy, ck, rows, host, passes, setups, bounds>>

\* The run row is written only at the revision the process read; a conflict
\* is reported and changes nothing.
MoveRun(r, stage) ==
    run' = IF run.rev = suites[r].rev
           THEN [stage |-> stage, rev |-> run.rev + 1] ELSE run

finishBaseline(r) ==
    LET s == suites[r] IN
    /\ Judged(r, "run", "baseline")
    /\ MoveRun(r, IF s.saved = "stored"
                     /\ (s.failures = {} \/ baselineFailureErrorTargeted(s))
                  THEN "implementation" ELSE "preflight")

\* CreateDraftPullRequest after the suite: open the draft, send the failures
\* back to the implementation session, or wait for a human.  A repair that is
\* out of budget or cannot be launched waits as well.
finishCheck(r) ==
    LET s == suites[r] IN
    /\ Judged(r, "run", "checkpoint")
    /\ \/ s.failures = {} /\ s.saved = "stored" /\ MoveRun(r, "draft_pr")
       \/ ~(s.failures = {} /\ s.saved = "stored") /\ MoveRun(r, "paused")
       \/ isRepairableCheckFailure(s.failures, s.saved) /\ MoveRun(r, "implementation")

finishGate(r) == Judged(r, "gate", "checkpoint") /\ UNCHANGED run

\* The process stops in the middle of its suite.
Crash(r) ==
    /\ suites[r] # NoSuite
    /\ suites' = [suites EXCEPT ![r] = NoSuite]
    /\ Fails(TRUE)
    /\ UNCHANGED <<policy, run, ck, rows, host, passes, setups, started>>

-----------------------------------------------------------------------------
\* ensureBaselineReadyAtCheckpointForLaunch, asked before every launch.
ensureBaselineReady ==
    LET stored == rows["baseline"][1] IN
    /\ \A g \in Gates : stored[g] # NotRun
    /\ HasSetupFailure(stored) => baselineSetupTargeted
    /\ Unhealthy(stored) # {} => baselineFailureTargeted(stored)

\* ensureFinalGateOutcomeAccepted and the completeness test around it.
ensureFinalGateOutcomeAccepted(result, blocking) ==
    \/ result = Result("passed", "success")
    \/ ~blocking /\ result = Result("failed", "failure")

ensureFinalCheckpointGatesAccepted ==
    \A g \in Gates : ensureFinalGateOutcomeAccepted(Stored("checkpoint")[g],
                                                    g \in policy.blocking)

\* The launched agents leave a new checkpoint for the check stage.
Implement ==
    /\ run.stage = "implementation" /\ ck < MaxCheckpoints
    /\ ensureBaselineReady
    /\ run' = [stage |-> "check", rev |-> run.rev + 1]
    /\ ck' = ck + 1
    /\ UNCHANGED <<policy, suites, rows, host, passes, setups, bounds>>

Step(from, to) ==
    /\ run.stage = from
    /\ run' = [stage |-> to, rev |-> run.rev + 1]
    /\ UNCHANGED <<policy, ck, suites, rows, host, passes, setups, bounds>>

ResumeCheck  == Step("paused", "check")
ReviewRepair == Step("draft_pr", "implementation")
MarkReady    == ensureFinalCheckpointGatesAccepted /\ Step("draft_pr", "ready")

Runner(r) ==
    \/ RunBaseline(r) \/ runConfiguredGates(r) \/ (\E g \in Gates : RunGate(r, g))
    \/ SuiteUnavailable(r) \/ RunSetup(r) \/ RunNextGate(r) \/ persistGateSuite(r)
    \/ finishBaseline(r) \/ finishCheck(r) \/ finishGate(r) \/ Crash(r)

Next ==
    \/ \E r \in Runners : Runner(r)
    \/ Implement \/ ResumeCheck \/ ReviewRepair \/ MarkReady

Spec == Init /\ [][Next]_vars

-----------------------------------------------------------------------------
(***************************************************************************)
(* Properties.                                                             *)
(***************************************************************************)

\* Every variable keeps its type.
TypeOK ==
    /\ policy \in Policies
    /\ run \in [stage : Stages, rev : Nat]
    /\ ck \in 1..MaxCheckpoints
    /\ suites \in [Runners -> Suites \cup {NoSuite}]
    /\ rows \in [Phases -> [1..MaxCheckpoints -> [Gates -> Results]]]
    /\ host \in [Phases -> [1..MaxCheckpoints -> [Gates -> Statuses]]]
    /\ passes \subseteq Phases \X (1..MaxCheckpoints) \X Gates
    /\ setups \subseteq Phases \X (1..MaxCheckpoints)

\* ensureFinalCheckpointGatesAccepted: a pull request becomes ready only when
\* the command of every blocking gate exited 0 at this very checkpoint, in a
\* checkout that setup had prepared: no reused setup, partial RunGate, second
\* process, lost write or earlier checkpoint stands in for that.
ReadyIsEarned ==
    run.stage = "ready" =>
        /\ <<"checkpoint", ck>> \in setups
        /\ \A g \in policy.blocking : <<"checkpoint", ck, g>> \in passes

\* gateproof.accepted promises to apply the final-readiness rule: a proof that
\* passes has a suite the run would pass and readiness would accept, and only a
\* command that hits its output limit after its deadline makes the proof the
\* stricter of the two.
ProofPredictsReadiness ==
    \A r \in Runners :
        LET s == suites[r]
            ready == \A g \in Gates :
                ensureFinalGateOutcomeAccepted(s.results[g], g \in policy.blocking)
        IN  (/\ Finished(s) /\ s.plan = Gates /\ ~s.skip /\ s.calls # <<>>
             /\ "publication" \notin s.failures) =>
              /\ verdict(s, policy.blocking) => ready /\ s.failures = {}
              /\ ready /\ (\A i \in DOMAIN s.calls : s.calls[i] # "late_error")
                   => verdict(s, policy.blocking)

Ends(r) == suites[r] # NoSuite /\ suites'[r] = NoSuite

\* The suite that moves a run on, past its baseline, to its draft or back to
\* its agents, is one whose statuses were all published and whose rows are all
\* stored, and none of whose commands may still be running in the worker.
MovesOnEvidence ==
    (\E r \in Runners : Ends(r)) /\ run'.stage \in {"implementation", "draft_pr"}
        /\ run' # run =>
         \E r \in Runners :
            /\ Ends(r)
            /\ suites[r].saved = "stored" /\ "publication" \notin suites[r].failures
            /\ \A g \in Gates : suites[r].results[g] # NotRun
            /\ \A i \in DOMAIN suites[r].calls : suites[r].calls[i] # "unconfirmed"

\* A check repair gives the agents only failures they can repair: a gate or
\* setup command that ended by itself or at its deadline, or a gate that
\* depends on a failed one; never an error of the worker.
RepairsCommands ==
    run.stage = "check" /\ run'.stage = "implementation" =>
         \E r \in Runners :
            /\ Ends(r)
            /\ Unhealthy(suites[r].results) # {} \/ HasSetupFailure(suites[r].results)
            /\ HasSetupFailure(suites[r].results) => suites[r].calls = <<"fail">>
            /\ \A g \in Unhealthy(suites[r].results) :
                 \/ suites[r].results[g].outcome \in {"failed", "setup_failed"}
                 \/ \E d \in policy.needs[g] :
                      suites[r].results[d].outcome \in {"failed", "error", "skipped"}

\* The end of a suite moves the run on, or back to its agents, only on evidence
\* that is complete, published and of the kind the move needs (gate.go
\* runBaselineProjection, repair.go isRepairableCheckFailure).
SuiteDecidesOnEvidence == [][MovesOnEvidence /\ RepairsCommands]_vars

-----------------------------------------------------------------------------
(***************************************************************************)
(* What the repository says and the code does not do.                      *)
(***************************************************************************)

\* configuration.md: without a matching marker an unhealthy baseline moves the
\* run to failed preflight, and the setup marker is the one that targets a setup
\* failure.
SetupFailureNeedsItsMarker ==
    run.stage = "implementation" /\ ck = 1 =>
        (HasSetupFailure(rows["baseline"][1]) => baselineSetupTargeted)

\* gate.go: the published status must agree with the outcome so a failure is
\* never presented as success.
ReadyShowsSuccess ==
    run.stage = "ready" =>
        \A g \in policy.blocking : host["checkpoint"][ck][g] = "success"

=============================================================================
