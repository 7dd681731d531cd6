----------------------------- MODULE ReportRoute -----------------------------
(***************************************************************************)
(* The way of one report: the command in the worker writes it or refuses   *)
(* it (report.go), the coordinator admits it against the run it finds, and *)
(* the store holds the row that results or refuses it; likewise the        *)
(* results of a partitioned review become one result of their axis.  Each  *)
(* side has limits of its own.                                             *)
(***************************************************************************)
EXTENDS RunProjection

CONSTANTS Invocations,  \* the invocations of the run that may report
          Reports(_),   \* what the role of an invocation may hand in
          RunRows,      \* the rows a run may have when the report arrives
          Worktrees,    \* the changes its worktree may show
          Packet,       \* the frozen packet of the run
          Disputes,     \* the identity of the dispute about a test and a claim
          Axes          \* the results of the units of one axis, in order

VARIABLES route,     \* how far the report, or the axis, has come
          document,  \* the submission, or the results of the axis
          seen       \* what the coordinator saw beside it: a run row and changes

routeVars == <<route, document, seen>>

NotSeen == <<>>

\* What admission and projection work on.
Snapshot(submission, run, changes) ==
  [run |-> run, invocation |-> submission.invocation, report |-> submission.report,
   changes |-> changes, packet |-> Packet, disputes |-> Disputes]

RouteInit ==
  /\ \/ /\ route = "composed"
        /\ \E invocation \in Invocations : \E report \in Reports(invocation) :
             document = [invocation |-> invocation, report |-> report]
     \/ route = "collected" /\ document \in Axes
  /\ seen = NotSeen

\* A refused command names the broken rule, and the harness may try again.
WriteReport ==
  /\ route = "composed"
  /\ route' = IF WriteAtomicForInvocation(document.report, document.invocation.id) THEN "written" ELSE "refused"
  /\ UNCHANGED <<document, seen>>

\* An admitted report is projected, and the projection saved; an effect that
\* the store refuses is refused again by every retry.
Accept(run, changes) ==
  LET s == Snapshot(document, run, changes) IN
  /\ route = "written"
  /\ seen' = <<run, changes>>
  /\ route' = IF ~AdmitReport(s) THEN "rejected" ELSE IF Storable(s) THEN "stored" ELSE "stuck"
  /\ UNCHANGED document

\* The last unit of an axis has a result.  An aggregate above the limits of an
\* axis is left to a person.
CollectAxis ==
  LET axis == aggregateReviewUnitResults(document, "c1") IN
  /\ route = "collected"
  /\ route' = IF axis.refused THEN "human"
              ELSE IF validateReviewProjection(axis.review, "c1") THEN "held" ELSE "stuck"
  /\ UNCHANGED <<document, seen>>

RouteNext ==
  \/ WriteReport \/ CollectAxis
  \/ \E run \in RunRows, changes \in Worktrees : Accept(run, changes)

-----------------------------------------------------------------------------
(* Why a row made of an admitted report may not be storable *)

\* An objection of a session that changed nothing hands over no file.
ObjectionWithoutFiles(s) == implementationTestObjection(s) /\ s.report.handoff[1].files = <<>>

\* An objection keeps every change of the worktree, named in the handoff or not.
ObjectionOverManyChanges(s) == implementationTestObjection(s) /\ Len(s.changes) > maxStoredPaths

\* The summary of a review is limited in characters here and in bytes there.
WideReviewSummary(s) == s.invocation.kind = "review" /\ s.report.summary.bytes > MaxReviewSummaryBytes

\* A revision adds its tests to those already protected.
RevisionProtectsTooMuch(s) ==
  /\ TestRevisionActive(s) /\ HandsOver(s)
  /\ Cardinality(Elements(s.run.protected) \cup Elements(ObservedChanges(s))) > maxStoredPaths

NotStorable(s) ==
  ObjectionWithoutFiles(s) \/ ObjectionOverManyChanges(s) \/ WideReviewSummary(s) \/ RevisionProtectsTooMuch(s)

\* What an axis asks and shows altogether.
Asked(results) == FoldLeft(LAMBDA n, r : n + Len(r.questions), 0, results)
Shown(results) == FoldLeft(LAMBDA n, r : n + Len(r.evidence), 0, results)

-----------------------------------------------------------------------------
(* Properties *)

\* A report that Validate (report.go:613) and admission accept becomes a row
\* that normalizeRun and validateReviewUnitResult (store.go:1401) accept, in
\* every case but these four; the results of an axis, each one the store holds,
\* add up to one it holds, or ask or show more than an axis may and are left to
\* a person (review_units.go:559); and what the worker's own command
\* (report.go:463) will not write is nothing the coordinator would accept: no
\* role is kept from what it may report.
AcceptedIsStorable ==
  /\ route \in {"stored", "stuck"} /\ seen # NotSeen =>
       ((route = "stuck") <=> NotStorable(Snapshot(document, seen[1], seen[2])))
  /\ route = "refused" =>
       \A run \in RunRows, changes \in Worktrees :
         ~Validate(document.report, acceptanceValidationContext(Snapshot(document, run, changes)))
  /\ route \in {"held", "human", "stuck"} /\ seen = NotSeen =>
       /\ route # "stuck"
       /\ (route = "human") <=> IF Shown(document) > 0 THEN Shown(document) > MaxReviewEvidence
                                ELSE Asked(document) > MaxReviewQuestions
=============================================================================
