---------------------------- MODULE RunProjection ----------------------------
(***************************************************************************)
(* What becomes of an accepted report in the operational store: which      *)
(* reports the coordinator admits (internal/factory/report_acceptance.go), *)
(* the run row or review result it makes of them, and what the store       *)
(* refuses to hold (internal/store/store.go, review_units.go).             *)
(***************************************************************************)
EXTENDS ReportContract

\* store.go:25-38, review_units.go:35-37
MaxReviewFindings == 64
MaxReviewQuestions == 32
MaxReviewEvidence == 32
MaxReviewSummaryBytes == 4000
MaxReviewUnitFindings == 16
maxPendingQuestions == 64
maxStoredPaths == 256
maxActiveInvocations == 32

-----------------------------------------------------------------------------
(* What the store holds *)

SingleLine(text) == ~text.blank /\ ~text.control

\* Any letters and digits, ".", "_" and "-", of any length.
safeQuestionIdentifier(id) == id.class \in {"plain", "unicode", "dots", "long"}

validateStoreRelativePath(path) ==
  LET clean == Clean(path.parts)
  IN ~path.control /\ ~path.absolute /\ clean # <<>> /\ Head(clean) \notin {"..", ".git"}

StoredPaths(paths) ==
  /\ Len(paths) <= maxStoredPaths
  /\ Distinct(paths)
  /\ \A i \in DOMAIN paths : validateStoreRelativePath(paths[i])

StoredTestHandoff(handoff) ==
  /\ handoff.mapping # <<>> /\ handoff.files # <<>> /\ handoff.evidence # <<>>
  /\ ~handoff.command.blank /\ ~handoff.failure.blank
  /\ \A path \in Elements(handoff.files) \cup Elements(handoff.infrastructure) : validateStoreRelativePath(path)

\* One dispute at a time, every attempt of it once and within the budget.
StoredRevisions(run) ==
  /\ \A i \in DOMAIN run.history :
       /\ run.history[i].attempt \in 1..run.budget
       /\ run.history[i].outcome \in {"pending", "accepted", "rejected", "verification_failed", "escalated"}
  /\ Distinct([i \in DOMAIN run.history |-> run.history[i].attempt])
  /\ Cardinality({r.dispute : r \in Elements(run.history)} \ {"none"}) <= 1

StoredObjection(objection) ==
  /\ \A field \in {"test", "claim", "evidence"} : SingleLine(objection[field])
  /\ safeQuestionIdentifier(objection.invocation)

StoredRoleHandoff(handoff) ==
  /\ SingleLine(handoff.changeSummary)
  /\ handoff.mapping # <<>> /\ handoff.files # <<>> /\ handoff.commands # <<>>
  /\ \A i \in DOMAIN handoff.mapping :
       SingleLine(handoff.mapping[i].criterion) /\ SingleLine(handoff.mapping[i].evidence)
  /\ \A i \in DOMAIN handoff.files : validateStoreRelativePath(handoff.files[i])
  /\ \A i \in DOMAIN handoff.objections :
       \A field \in {"test", "claim", "evidence"} : SingleLine(handoff.objections[i][field])

validateReviewFinding(finding) ==
  /\ finding.unit # <<>> => safeQuestionIdentifier(finding.unit[1])
  /\ \A field \in {"location", "claim", "evidence", "resolution", "owner"} : SingleLine(finding[field])
  /\ finding.severity \in {"blocker", "advisory"}
  /\ finding.category \in {"correctness", "security", "specification", "documented_standards", "taste", "scope"}

\* What a review result, of an axis or of a unit, may say by its outcome.
StoredDisposition(result) ==
  /\ result.outcome \in {"completed", "needs_clarification", "cannot_proceed"}
  /\ (result.questions # <<>>) = (result.outcome = "needs_clarification")
  /\ (result.evidence # <<>>) = (result.outcome = "cannot_proceed")
  /\ result.summary.bytes <= MaxReviewSummaryBytes /\ ~result.summary.control
  /\ Len(result.questions) <= MaxReviewQuestions /\ Len(result.evidence) <= MaxReviewEvidence
  /\ Distinct([i \in DOMAIN result.questions |-> result.questions[i].id])
  /\ \A i \in DOMAIN result.questions :
       safeQuestionIdentifier(result.questions[i].id) /\ SingleLine(result.questions[i].prompt)
  /\ \A i \in DOMAIN result.evidence :
       SingleLine(result.evidence[i].kind) /\ SingleLine(result.evidence[i].detail)
  /\ \A i \in DOMAIN result.findings : validateReviewFinding(result.findings[i])

validateReviewProjection(review, checkpoint) ==
  /\ review.checkpoint = checkpoint /\ validCommitSHA(checkpoint)
  /\ StoredDisposition(review)
  /\ Len(review.findings) <= MaxReviewFindings

validateReviewUnitResult(result) ==
  /\ result.role \in {"spec_review", "standards_review"}
  /\ safeQuestionIdentifier(result.unit) /\ safeQuestionIdentifier(result.invocation)
  /\ validCommitSHA(result.checkpoint)
  /\ StoredDisposition(result)
  /\ Len(result.findings) <= MaxReviewUnitFindings
  /\ \A i \in DOMAIN result.findings : result.findings[i].unit = <<result.unit>>

validateSummaryProjection(summary) ==
  /\ validCommitSHA(summary.checkpoint)
  /\ CASE summary.status = "written" -> summary.body # <<>> /\ ~summary.body[1].blank
       [] summary.status = "failed" -> summary.body = <<>>
       [] OTHER -> FALSE

validatePendingQuestions(questions) ==
  /\ Len(questions) <= maxPendingQuestions
  /\ Distinct([i \in DOMAIN questions |-> questions[i].id])
  /\ \A i \in DOMAIN questions :
       safeQuestionIdentifier(questions[i].id) /\ SingleLine(questions[i].prompt)

validateTestProjection(run) ==
  /\ StoredPaths(run.protected)
  /\ run.testHandoff # <<>> => StoredTestHandoff(run.testHandoff[1])
  /\ run.testInvocation # <<>> => safeQuestionIdentifier(run.testInvocation[1])
  /\ StoredRevisions(run)
  /\ StoredPaths(run.basePaths)
  /\ run.objection # <<>> => StoredObjection(run.objection[1])
  /\ run.roleHandoff # <<>> => StoredRoleHandoff(run.roleHandoff[1])
  /\ \A role \in DOMAIN run.reviews :
       run.reviews[role] # <<>> => validateReviewProjection(run.reviews[role][1], run.checkpoint)
  /\ run.summary # <<>> => validateSummaryProjection(run.summary[1])
  /\ Len(run.active) <= maxActiveInvocations /\ Distinct(run.active)

\* SaveRun refuses a row that is not normal.  The repair counters and packets,
\* which no report changes, are those of the row before.
normalizeRun(run) ==
  /\ validateTestProjection(run)
  /\ run.attempts <= run.budget
  /\ validatePendingQuestions(run.pending)

-----------------------------------------------------------------------------
(* What the coordinator admits.  A snapshot is the run, the invocation, the
   report and the changes of the worktree *)

implementationTestObjection(s) ==
  /\ s.invocation.role = "implementation" /\ s.invocation.stage = "implementation"
  /\ s.report.outcome = "completed"
  /\ s.report.handoff # <<>> /\ s.report.handoff[1].objections # <<>>

\* A budget the run does not have yet is that of the frozen packet.
RevisionBudget(s) == IF s.run.budget = 0 THEN s.packet.revisions ELSE s.run.budget

validateImplementationTestObjection(s) ==
  implementationTestObjection(s) =>
    /\ s.packet.testStage /\ ~s.run.testSkipped
    /\ s.run.testHandoff # <<>> /\ s.run.protected # <<>>
    /\ RevisionBudget(s) > 0
    /\ Len(s.report.handoff[1].objections) = 1

validateClarificationQuestions(s) ==
  LET known == s.packet.answered \cup {s.run.pending[i].id : i \in DOMAIN s.run.pending}
  IN \A i \in DOMAIN s.report.questions :
       safeQuestionIdentifier(s.report.questions[i].id) /\ s.report.questions[i].id \notin known

validateImplementationOwnedSignals(s) ==
  s.invocation.role = "implementation" /\ ~s.packet.testStage =>
    s.report.exemptions = <<>> /\ "test_dispute" \notin Elements(s.report.escalations)

TestRevisionActive(s) == s.invocation.kind = "test" /\ s.run.objection # <<>>

testRevisionChangedPaths(changes, base) == SelectSeq(changes, LAMBDA p : p \notin Elements(base))

\* A test revision answers for what changed since the objection was raised.
ObservedChanges(s) ==
  IF TestRevisionActive(s) THEN testRevisionChangedPaths(s.changes, s.run.basePaths) ELSE s.changes

acceptanceValidationContext(s) ==
  [identity |-> [invocation |-> s.invocation.id, run |-> s.run.id, harness |-> s.invocation.harness,
                 role |-> s.invocation.role, stage |-> s.invocation.stage],
   prompt |-> s.invocation.prompt, kind |-> s.invocation.kind, permitted |-> s.invocation.permitted,
   observed |-> ObservedChanges(s), worktreeObserved |-> TRUE, testPaths |-> s.packet.testPaths,
   testFileNames |-> s.packet.testFileNames, guidance |-> s.packet.guidance,
   guidanceBound |-> s.invocation.role = "standards_review" /\ s.invocation.prompt # "standards-review-v1",
   checkpoint |-> s.run.checkpoint, unit |-> s.invocation.unit,
   deferTestPathPolicy |-> FALSE, allowEmptyProductionFiles |-> FALSE]

\* A report the coordinator admits and stores.  What the worktree's head, the
\* protected tests and the test policy decide is in RunProgression.
AdmitReport(s) ==
  /\ s.invocation.kind \in {"review", "summary"} => s.changes = <<>>
  /\ s.invocation.kind = "test" => s.packet.testStage
  /\ validateImplementationOwnedSignals(s)
  /\ Readable(s.report, s.invocation.kind = "test")
  /\ Validate(s.report, acceptanceValidationContext(s))
  /\ s.report.response # <<>> => TestRevisionActive(s)
  /\ validateImplementationTestObjection(s)
  /\ s.report.outcome = "needs_clarification" /\ s.invocation.kind # "summary" => validateClarificationQuestions(s)

-----------------------------------------------------------------------------
(* What it stores *)

pendingQuestionsFromReport(questions) == questions

roleHandoffFromReport(handoff) ==
  [changeSummary |-> handoff.changeSummary, mapping |-> handoff.mapping, files |-> handoff.files,
   commands |-> handoff.commands, objections |-> handoff.objections]

\* The handoff is retained only when it names a file.
agentReportRunProjection(s) ==
  [s.run EXCEPT
     !.roleHandoff = IF s.report.outcome = "completed" /\ s.report.handoff[1].files # <<>>
                     THEN <<roleHandoffFromReport(s.report.handoff[1])>> ELSE @,
     !.pending = IF s.report.outcome = "needs_clarification"
                 THEN pendingQuestionsFromReport(s.report.questions) ELSE <<>>,
     !.active = <<>>]

testObjectionDisputeKey(objection) == <<objection.test, objection.claim>>

testRevisionHistoryMatchesDispute(history, dispute) ==
  \A i \in DOMAIN history : history[i].dispute = dispute

\* Here the handoff is retained whatever it names.
projectImplementationTestObjection(s) ==
  LET objection == s.report.handoff[1].objections[1]
      dispute == s.disputes[testObjectionDisputeKey(objection)]
      same == testRevisionHistoryMatchesDispute(s.run.history, dispute)
      attempts == IF same THEN s.run.attempts ELSE 0
      history == IF same THEN s.run.history ELSE <<>>
      next == [s.run EXCEPT
                 !.budget = RevisionBudget(s), !.attempts = attempts, !.history = history,
                 !.objection = <<[test |-> objection.test, claim |-> objection.claim,
                                  evidence |-> objection.evidence, invocation |-> s.run.testInvocation[1]]>>,
                 !.basePaths = s.changes,
                 !.roleHandoff = <<roleHandoffFromReport(s.report.handoff[1])>>,
                 !.pending = <<>>, !.active = <<>>, !.testSkipped = FALSE]
  IN IF s.packet.automated /\ attempts < next.budget
     THEN [next EXCEPT !.attempts = attempts + 1,
                       !.history = Append(history, [attempt |-> attempts + 1, outcome |-> "pending", dispute |-> dispute])]
     ELSE next

\* A test stage that ends with an exemption hands nothing over, nor does a
\* revision that does not answer the objection.
HandsOver(s) ==
  /\ s.report.outcome = "completed" /\ s.report.testHandoff # <<>>
  /\ IF TestRevisionActive(s) THEN s.report.response # <<>> ELSE "technical" \notin Elements(s.report.exemptions)

\* Mutant: a test changed again is listed twice.
AppendProtectedTestPaths(protected, changed) == protected \o changed

\* Tests of an earlier handoff stay protected with those of its revision.
mergeProtectedTestPaths(protected, changed) ==
  protected \o SelectSeq(changed, LAMBDA p : p \notin Elements(protected))

\* The handoff of a verified red test, the first or a revised one.  What a red
\* test is, and which disputes go to a human, is in RunProgression.
acceptTestStageReport(s) ==
  LET next == [s.run EXCEPT !.pending = pendingQuestionsFromReport(s.report.questions)]
  IN IF ~HandsOver(s) THEN next
     ELSE [next EXCEPT
             !.testHandoff = s.report.testHandoff, !.objection = <<>>, !.basePaths = <<>>,
             !.protected = IF TestRevisionActive(s) THEN mergeProtectedTestPaths(@, ObservedChanges(s))
                           ELSE ObservedChanges(s),
             !.reviews = [role \in DOMAIN @ |-> <<>>]]

FindingsOf(value) == IF value.reviewHandoff = <<>> THEN <<>> ELSE value.reviewHandoff[1].findings

reviewResultProjectionFromReport(value, checkpoint) ==
  [checkpoint |-> IF value.reviewHandoff = <<>> THEN checkpoint ELSE value.reviewHandoff[1].sha,
   outcome |-> value.outcome, summary |-> value.summary, findings |-> FindingsOf(value),
   questions |-> value.questions, evidence |-> value.evidence]

\* Questions of one axis are answered under the axis's name.
reviewQuestionsForRun(run) ==
  LET Of(role) ==
        IF run.reviews[role] = <<>> \/ run.reviews[role][1].checkpoint # run.checkpoint THEN <<>>
        ELSE [i \in DOMAIN run.reviews[role][1].questions |->
                [run.reviews[role][1].questions[i] EXCEPT !.id.name = <<role>> \o @]]
  IN Of("spec_review") \o Of("standards_review")

applyReviewResultProjection(s) ==
  LET next == [s.run EXCEPT !.reviews[s.invocation.role] =
                 <<reviewResultProjectionFromReport(s.report, s.run.checkpoint)>>]
  IN [next EXCEPT !.pending = reviewQuestionsForRun(next)]

reviewUnitResultFromReport(s) ==
  [role |-> s.invocation.role, unit |-> s.invocation.unit[1], invocation |-> s.invocation.id,
   checkpoint |-> s.run.checkpoint, outcome |-> s.report.outcome, summary |-> s.report.summary,
   findings |-> [i \in DOMAIN FindingsOf(s.report) |-> [FindingsOf(s.report)[i] EXCEPT !.unit = s.invocation.unit]],
   questions |-> s.report.questions, evidence |-> s.report.evidence]

\* Only a body with the template's sections and no marker is written.
pullRequestSummaryFromReport(s) ==
  LET usable == s.report.outcome = "completed" /\ s.report.pullRequest[1].template
  IN [checkpoint |-> s.run.checkpoint, status |-> IF usable THEN "written" ELSE "failed",
      body |-> IF usable THEN s.report.pullRequest ELSE <<>>]

\* The run row that the acceptance of the report saves, or tries to.
projectAcceptance(s) ==
  CASE implementationTestObjection(s) -> projectImplementationTestObjection(s)
    [] s.invocation.kind = "test" -> acceptTestStageReport(s)
    [] s.invocation.kind = "review" /\ s.invocation.unit = <<>> -> applyReviewResultProjection(s)
    [] s.invocation.kind = "review" /\ s.invocation.unit # <<>> -> [s.run EXCEPT !.pending = <<>>]
    [] s.invocation.kind = "summary" -> [s.run EXCEPT !.summary = <<pullRequestSummaryFromReport(s)>>]
    [] OTHER -> agentReportRunProjection(s)

Storable(s) ==
  /\ normalizeRun(projectAcceptance(s))
  /\ s.invocation.kind = "review" /\ s.invocation.unit # <<>> => validateReviewUnitResult(reviewUnitResultFromReport(s))

-----------------------------------------------------------------------------
(* The axis of a partitioned review: the results of its units, in order *)

\* A question whose id was used by an earlier unit is asked under the name of
\* its own unit, or not at all when that was used as well.
AddQuestions(asked, result) ==
  LET ids == {asked[i].id : i \in DOMAIN asked}
      Renamed(question) ==
        IF question.id \in ids THEN [question EXCEPT !.id.name = result.unit.name \o @] ELSE question
      renamed == [i \in DOMAIN result.questions |-> Renamed(result.questions[i])]
  IN asked \o SelectSeq(renamed, LAMBDA question : question.id \notin ids)

QuestionsOfUnits(results) ==
  FoldLeft(LAMBDA asked, result :
             IF result.outcome = "needs_clarification" THEN AddQuestions(asked, result) ELSE asked,
           <<>>, results)

EvidenceOfUnits(results) ==
  FlattenSeq([i \in DOMAIN results |->
                IF results[i].outcome = "cannot_proceed" THEN results[i].evidence ELSE <<>>])

\* A reviewer that could not proceed weighs more than one that asks.
\* Mutant: a question outweighs a reviewer that could not proceed.
AxisOutcomeAsksFirst(results) ==
  LET outcomes == {r.outcome : r \in Elements(results)} IN
  IF "needs_clarification" \in outcomes THEN "needs_clarification"
  ELSE IF "cannot_proceed" \in outcomes THEN "cannot_proceed" ELSE "completed"

AxisOutcome(results) ==
  LET outcomes == {r.outcome : r \in Elements(results)} IN
  IF "cannot_proceed" \in outcomes THEN "cannot_proceed"
  ELSE IF "needs_clarification" \in outcomes THEN "needs_clarification" ELSE "completed"

aggregateReviewUnitResults(results, checkpoint) ==
  LET outcome == AxisOutcome(results)
      bytes == FoldLeft(LAMBDA sum, result : sum + result.summary.bytes, 0, results)
      findings == FlattenSeq([i \in DOMAIN results |-> results[i].findings])
      questions == IF outcome = "needs_clarification" THEN QuestionsOfUnits(results) ELSE <<>>
      evidence == IF outcome = "cannot_proceed" THEN EvidenceOfUnits(results) ELSE <<>>
  IN [refused |-> \/ Len(findings) > MaxReviewFindings
                  \/ Len(questions) > MaxReviewQuestions \/ Len(evidence) > MaxReviewEvidence,
      review |-> [checkpoint |-> checkpoint, outcome |-> outcome, findings |-> findings,
                  questions |-> questions, evidence |-> evidence,
                  summary |-> [bytes |-> IF bytes > MaxReviewSummaryBytes THEN MaxReviewSummaryBytes ELSE bytes,
                               control |-> FALSE]]]
=============================================================================
