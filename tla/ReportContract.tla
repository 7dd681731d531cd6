--------------------------- MODULE ReportContract ---------------------------
(***************************************************************************)
(* What a harness may report (internal/report/report.go).  A text is its   *)
(* length in characters and in bytes and whether it is blank or carries a  *)
(* line break; an identifier is its name and the class of its characters;  *)
(* a path is the sequence of its components as written.  An optional part  *)
(* is a sequence of at most one element.  The same rules run twice: when   *)
(* the worker writes its report and when the coordinator accepts it, each  *)
(* time with what that side knows (the context).                           *)
(***************************************************************************)
EXTENDS Naturals, Sequences, FiniteSets, SequencesExt

\* report.go:22-53, 1138
SchemaVersion == 1
maxSummaryRunes == 2000
maxTextRunes == 4000
maxPathRunes == 1024
maxAcceptanceMappings == 64
maxProductionFiles == 256
maxFocusedCommands == 128
maxKnownLimitations == 64
maxPermittedPaths == 128
maxQuestions == 32
maxEvidenceEntries == 32
maxEvaluationSignals == 32
maxTestObjections == 8
maxTestFiles == 256
maxUncoveredCriteria == 64
MaxPullRequestSummaryRunes == 16000
maxReviewFindings == 64
maxUnitFindings == 16

Elements(s) == {s[i] : i \in DOMAIN s}
Distinct(s) == Cardinality(Elements(s)) = Len(s)

-----------------------------------------------------------------------------
(* Texts, identifiers and paths *)

validateText(text, maxRunes, required) ==
  (required => ~text.blank) /\ ~text.control /\ text.runes <= maxRunes

Texts(texts, maxRunes) == \A i \in DOMAIN texts : validateText(texts[i], maxRunes, TRUE)

\* Letters, digits, ".", "_" and "-" of ASCII, at most 256, and not "." or "..".
IsSafeIdentifier(id) == id.class = "plain"

\* filepath.Clean on the components of a relative path.
Clean(parts) ==
  FoldLeft(LAMBDA done, part :
             CASE part = "." -> done
               [] part = ".." /\ done # <<>> /\ Last(done) # ".." -> Front(done)
               [] OTHER -> Append(done, part),
           <<>>, parts)

cleanRelativePath(path) ==
  LET clean == Clean(path.parts)
  IN ~path.control /\ ~path.absolute /\ clean # <<>> /\ Head(clean) \notin {"..", ".git"}

WholeCheckout(prefix) == prefix.parts = <<".">>

withinAnyPrefix(clean, prefixes) ==
  \E i \in DOMAIN prefixes :
    \/ WholeCheckout(prefixes[i])
    \/ cleanRelativePath(prefixes[i]) /\ IsPrefix(Clean(prefixes[i].parts), clean)

Permitted(clean, context) == context.permitted # <<>> => withinAnyPrefix(clean, context.permitted)

ValidatePermittedPaths(prefixes) ==
  /\ Len(prefixes) <= maxPermittedPaths
  /\ \A i \in DOMAIN prefixes :
       \/ WholeCheckout(prefixes[i])
       \/ prefixes[i].runes <= maxPathRunes /\ cleanRelativePath(prefixes[i])

\* Conventional test paths, and the configured prefixes that do not name the
\* whole checkout.
isTestOwnedPath(clean, context) ==
  \/ Last(clean) \in context.testFileNames
  \/ Len(clean) > 1 /\ Head(clean) \in {"test", "tests", "test-support", "__tests__"}
  \/ withinAnyPrefix(clean, SelectSeq(context.testPaths, LAMBDA p : ~WholeCheckout(p)))

validateTestPath(path, context) ==
  /\ path.runes <= maxPathRunes
  /\ cleanRelativePath(path)
  /\ context.deferTestPathPolicy \/ isTestOwnedPath(Clean(path.parts), context)

\* The observed changes, or nothing when one of them may not be there.
ObservedPermitted(context) ==
  \A i \in DOMAIN context.observed :
    /\ cleanRelativePath(context.observed[i])
    /\ Permitted(Clean(context.observed[i].parts), context)

Observed(context) == {Clean(path.parts) : path \in Elements(context.observed)}

-----------------------------------------------------------------------------
(* The parts of a report *)

validateEvidence(entries) ==
  /\ Len(entries) <= maxEvidenceEntries
  /\ \A i \in DOMAIN entries :
       validateText(entries[i].kind, maxSummaryRunes, TRUE) /\ validateText(entries[i].detail, maxTextRunes, TRUE)

validateQuestions(questions) ==
  /\ Len(questions) <= maxQuestions
  /\ Distinct([i \in DOMAIN questions |-> questions[i].id])
  /\ \A i \in DOMAIN questions :
       IsSafeIdentifier(questions[i].id) /\ validateText(questions[i].prompt, maxTextRunes, TRUE)

AcceptanceMapped(mapping) ==
  /\ Len(mapping) \in 1..maxAcceptanceMappings
  /\ \A i \in DOMAIN mapping :
       validateText(mapping[i].criterion, maxTextRunes, TRUE) /\ validateText(mapping[i].evidence, maxTextRunes, TRUE)

\* A completed handoff names a file, unless the inspected worktree is clean:
\* then there was nothing to name.
HandoffFiles(handoff, context) ==
  LET observed == Observed(context) IN
  /\ \/ handoff.files # <<>>
     \/ context.allowEmptyProductionFiles
     \/ context.worktreeObserved /\ context.observed = <<>>
  /\ ObservedPermitted(context)
  /\ Len(handoff.files) <= maxProductionFiles
  /\ \A i \in DOMAIN handoff.files :
       LET file == handoff.files[i] IN
       /\ file.runes <= maxPathRunes /\ cleanRelativePath(file)
       /\ Permitted(Clean(file.parts), context)
       /\ context.worktreeObserved => Clean(file.parts) \in observed

HandoffObjections(objections) ==
  /\ Len(objections) <= maxTestObjections
  /\ Distinct([i \in DOMAIN objections |-> objections[i].test])
  /\ \A i \in DOMAIN objections :
       /\ validateText(objections[i].test, maxPathRunes, TRUE)
       /\ validateText(objections[i].claim, maxTextRunes, TRUE)
       /\ validateText(objections[i].evidence, maxTextRunes, TRUE)

validateHandoff(handoff, context) ==
  /\ validateText(handoff.changeSummary, maxTextRunes, TRUE)
  /\ AcceptanceMapped(handoff.mapping)
  /\ HandoffFiles(handoff, context)
  /\ Len(handoff.commands) \in 1..maxFocusedCommands /\ Texts(handoff.commands, maxTextRunes)
  /\ Len(handoff.limitations) <= maxKnownLimitations /\ Texts(handoff.limitations, maxTextRunes)
  /\ HandoffObjections(handoff.objections)

\* A test handoff names exactly the files that changed, all of them its own.
TestHandoffFiles(handoff, context) ==
  LET changed == [i \in DOMAIN handoff.files |-> Clean(handoff.files[i].parts)] IN
  /\ Len(handoff.files) \in 1..maxTestFiles
  /\ ObservedPermitted(context)
  /\ \A i \in DOMAIN handoff.files :
       validateTestPath(handoff.files[i], context) /\ Permitted(changed[i], context)
  /\ Distinct(changed)
  /\ context.worktreeObserved => Elements(changed) = Observed(context)

TestInfrastructure(handoff, context) ==
  /\ Len(handoff.infrastructure) <= maxTestFiles
  /\ \A i \in DOMAIN handoff.infrastructure :
       /\ validateTestPath(handoff.infrastructure[i], context)
       /\ \E j \in DOMAIN handoff.files : Clean(handoff.files[j].parts) = Clean(handoff.infrastructure[i].parts)

validateTestHandoff(handoff, context) ==
  /\ AcceptanceMapped(handoff.mapping)
  /\ TestHandoffFiles(handoff, context)
  /\ validateText(handoff.command, maxTextRunes, TRUE)
  /\ validateText(handoff.failure, maxTextRunes, TRUE)
  /\ handoff.evidence # <<>> /\ validateEvidence(handoff.evidence)
  /\ TestInfrastructure(handoff, context)
  /\ Len(handoff.uncovered) <= maxUncoveredCriteria /\ Texts(handoff.uncovered, maxTextRunes)

validateTestObjectionResponse(response) ==
  response.decision \in {"accepted", "rejected"} /\ validateText(response.reason, maxTextRunes, TRUE)

\* "source=guidance:<document>;hunk=<location>;<evidence>": where a standards
\* finding comes from, and that it is about the hunk it points at.
validateStandardsFindingProvenance(finding, context) ==
  LET provenance == finding.provenance IN
  /\ provenance.source \in {"guidance", "heuristic"} /\ provenance.name # ""
  /\ provenance.source = "guidance" /\ context.guidanceBound => provenance.name \in context.guidance
  /\ provenance.hunk = finding.location
  /\ provenance.observation

ProvenanceDue(context) ==
  /\ context.identity.role = "standards_review" /\ context.prompt # "standards-review-v1"
  /\ context.checkpoint # "" \/ context.guidanceBound

validateFinding(finding, context) ==
  /\ finding.unit # <<>> => IsSafeIdentifier(finding.unit[1])
  /\ \A field \in {"location", "claim", "evidence", "resolution", "owner"} :
       validateText(finding[field], maxTextRunes, TRUE)
  /\ context.unit # <<>> => finding.unit = context.unit
  /\ finding.severity \in {"blocker", "advisory"}
  /\ finding.category \in {"correctness", "security", "specification", "documented_standards", "taste", "scope"}
  /\ ProvenanceDue(context) => validateStandardsFindingProvenance(finding, context)

validCommitSHA(sha) == sha \in {"c1", "c2"}    \* bound: two well-formed commit ids

validateReviewHandoff(handoff, context) ==
  /\ validCommitSHA(handoff.sha)
  /\ context.checkpoint # "" => handoff.sha = context.checkpoint
  /\ handoff.unit # <<>> => IsSafeIdentifier(handoff.unit[1])
  /\ context.unit # <<>> => handoff.unit = context.unit
  /\ Len(handoff.findings) <= IF context.unit = <<>> THEN maxReviewFindings ELSE maxUnitFindings
  /\ \A i \in DOMAIN handoff.findings : validateFinding(handoff.findings[i], context)

\* The body of a pull request may span lines.
validatePullRequestSummary(body) == ~body.blank /\ body.runes <= MaxPullRequestSummaryRunes

validCurrency(currency) == currency \in {"EUR", "USD"}    \* bound: two three-letter codes

validateUsage(usage) ==
  /\ usage.available
  /\ usage.tokens > 0 \/ usage.costReported
  /\ IF usage.costReported THEN validCurrency(usage.currency) ELSE usage.cost = 0 /\ usage.currency = ""

Exemptions == {"human", "technical", "baseline"}
Escalations == {"test_dispute", "review_finding"}
Blockers == {"setup", "gate", "test", "review", "harness", "budget", "unknown"}

validateEvaluationSignals(value) ==
  \A field \in {"exemptions", "escalations", "blockers"} :
    /\ Len(value[field]) <= maxEvaluationSignals
    /\ Elements(value[field]) \subseteq
         CASE field = "exemptions" -> Exemptions [] field = "escalations" -> Escalations [] OTHER -> Blockers

-----------------------------------------------------------------------------
(* Which contract a report answers to: the kind of the role the coordinator
   resolved, or without one what the names of role and stage say *)

isTestReport(value) == value.identity.role = "test" /\ value.identity.stage = "test"
isReviewReport(value) ==
  <<value.identity.role, value.identity.stage>> \in {<<"spec_review", "review">>, <<"standards_review", "standards_review">>}
isSummaryReport(value) == value.identity.role = "pr_writer" /\ value.identity.stage = "pr_summary"

isTestReportForContext(value, context) ==
  IF context.kind # "" THEN context.kind = "test" ELSE isTestReport(value)
isReviewReportForContext(value, context) ==
  IF context.kind # "" THEN context.kind = "review" ELSE isReviewReport(value)
isSummaryReportForContext(value, context) ==
  IF context.kind # "" THEN context.kind = "summary" ELSE isSummaryReport(value)

-----------------------------------------------------------------------------
(* The outcomes *)

\* The report carries none of these parts.
Without(value, parts) == \A part \in parts : value[part] = <<>>

CompletedTest(value, context) ==
  /\ Without(value, {"handoff", "reviewHandoff"})
  /\ IF value.response # <<>>
     THEN /\ validateTestObjectionResponse(value.response[1])
          /\ (value.response[1].decision = "accepted") = (value.testHandoff # <<>>)
     ELSE value.testHandoff = <<>> => "technical" \in Elements(value.exemptions)
  /\ value.testHandoff # <<>> => validateTestHandoff(value.testHandoff[1], context)

Completed(value, context) ==
  /\ Without(value, {"questions", "evidence"})
  /\ CASE isSummaryReportForContext(value, context) ->
            /\ Without(value, {"handoff", "testHandoff", "reviewHandoff", "response"})
            /\ value.pullRequest # <<>> /\ validatePullRequestSummary(value.pullRequest[1])
       [] isTestReportForContext(value, context) -> CompletedTest(value, context)
       [] isReviewReportForContext(value, context) ->
            /\ Without(value, {"handoff", "testHandoff", "response"})
            /\ value.reviewHandoff # <<>> /\ validateReviewHandoff(value.reviewHandoff[1], context)
       [] OTHER ->
            /\ Without(value, {"testHandoff", "reviewHandoff", "response"})
            /\ value.handoff # <<>> /\ validateHandoff(value.handoff[1], context)

\* A reviewer that stops early may still hand over what it found.
FindingsSoFar(value, context) ==
  value.reviewHandoff # <<>> =>
    /\ isReviewReportForContext(value, context)
    /\ value.reviewHandoff[1].findings # <<>>
    /\ validateReviewHandoff(value.reviewHandoff[1], context)

NeedsClarification(value, context) ==
  /\ value.questions # <<>> /\ validateQuestions(value.questions)
  /\ Without(value, {"handoff", "testHandoff", "response", "evidence"})
  /\ FindingsSoFar(value, context)

CannotProceed(value, context) ==
  /\ value.evidence # <<>> /\ validateEvidence(value.evidence)
  /\ Without(value, {"handoff", "testHandoff", "response", "questions"})
  /\ FindingsSoFar(value, context)

\* Reports of planning sessions are judged in IdeationSessions.
Validate(value, context) ==
  /\ value.version = SchemaVersion
  /\ value.identity = context.identity
  /\ IsSafeIdentifier(value.identity.invocation) /\ IsSafeIdentifier(value.identity.run)
  /\ validateText(value.summary, maxSummaryRunes, TRUE)
  /\ value.dated
  /\ value.pullRequest # <<>> => isSummaryReportForContext(value, context) /\ value.outcome = "completed"
  /\ CASE value.outcome = "completed" -> Completed(value, context)
       [] value.outcome = "needs_clarification" -> NeedsClarification(value, context)
       [] value.outcome = "cannot_proceed" -> CannotProceed(value, context)
       [] OTHER -> FALSE
  /\ value.native # <<>> => IsSafeIdentifier(value.native[1])
  /\ value.usage # <<>> => validateUsage(value.usage[1])
  /\ validateEvaluationSignals(value)

-----------------------------------------------------------------------------
(* The worker's side *)

\* All a worker can hold its report against is the report itself.
identityFrom(value) ==
  [identity |-> value.identity, prompt |-> "", kind |-> "", permitted |-> <<>>, observed |-> <<>>,
   worktreeObserved |-> FALSE, testPaths |-> <<>>, testFileNames |-> {}, guidance |-> {},
   guidanceBound |-> FALSE, checkpoint |-> "", unit |-> <<>>, deferTestPathPolicy |-> TRUE,
   allowEmptyProductionFiles |-> TRUE]

WriteAtomicForInvocation(value, invocation) ==
  Validate(value, [identityFrom(value) EXCEPT !.identity.invocation = invocation]) /\ IsSafeIdentifier(invocation)

\* The coordinator reads a test report as it is, so that one it can not verify
\* reaches a human, and any other through the same rules the worker wrote it by.
Readable(value, testInvocation) == testInvocation \/ Validate(value, identityFrom(value))
=============================================================================
