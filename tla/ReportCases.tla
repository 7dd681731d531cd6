---------------------------- MODULE ReportCases ----------------------------
(***************************************************************************)
(* The reports on their way: those that differ from a proper report of     *)
(* their role in up to two places.  Limits are those of the code; lists    *)
(* are of the lengths at each limit.                                       *)
(***************************************************************************)
EXTENDS ReportRoute, TLC

T(name, runes, bytes) == [name |-> name, runes |-> runes, bytes |-> bytes, blank |-> runes = 0, control |-> FALSE]
Line == T("line", 9, 9)
Wide == T("wide", 2000, 6000)     \* two thousand characters of three bytes each
Blank == T("blank", 0, 0)
Lines == [Line EXCEPT !.control = TRUE]
LongText == T("long", 4001, 4001)
LineTexts == {Line, Blank, Lines, LongText}

Id(name) == [name |-> <<name>>, class |-> "plain"]
Path(parts) == [parts |-> parts, runes |-> 9, control |-> FALSE, absolute |-> FALSE]
Code == Path(<<"code", "a">>)
Test == Path(<<"test", "a">>)
SpecFile == Path(<<"spec", "a">>)     \* a test by the packet's policy only
Winding == Path(<<"code", ".", "b", "..", "a">>)
Paths(n, dir) == [i \in 1..n |-> Path(<<dir, ToString(i)>>)]
Many(n, value) == [i \in 1..n |-> value]
Numbered(n, value(_)) == [i \in 1..n |-> value(ToString(i))]

Question(name) == [id |-> Id(name), prompt |-> Line]
Entry == [kind |-> Line, detail |-> Line]
Mapping == <<[criterion |-> Line, evidence |-> Line]>>
Objection(test) == [test |-> test, claim |-> Line, evidence |-> Line]
Handoff == [changeSummary |-> Line, mapping |-> Mapping, files |-> <<Code>>, commands |-> <<Line>>,
            limitations |-> <<>>, objections |-> <<>>]
TestHandoff == [mapping |-> Mapping, files |-> <<Test>>, command |-> Line, failure |-> Line,
                evidence |-> <<Entry>>, infrastructure |-> <<>>, uncovered |-> <<>>]
Finding(unit) ==
  [unit |-> unit, location |-> Line, claim |-> Line, evidence |-> Line, resolution |-> Line, owner |-> Line,
   severity |-> "blocker", category |-> "scope",
   provenance |-> [source |-> "guidance", name |-> "guide", hunk |-> Line, observation |-> TRUE]]
ReviewHandoff(unit) == [sha |-> "c1", unit |-> unit, findings |-> <<Finding(unit)>>]
Body == Line @@ [template |-> TRUE]

Roles == {"implementation", "architecture", "test", "spec_review", "standards_review", "pr_writer"}
KindOf(role) == CASE role \in {"implementation", "architecture"} -> "handoff" [] role = "test" -> "test"
                  [] role = "pr_writer" -> "summary" [] OTHER -> "review"
StageOf(role) == CASE role = "spec_review" -> "review" [] role = "pr_writer" -> "pr_summary" [] OTHER -> role
MCInvocations ==
  {[role |-> role, stage |-> StageOf(role), kind |-> KindOf(role), id |-> Id("i1"), harness |-> "h",
    prompt |-> "v2", permitted |-> <<>>, unit |-> unit] :
   <<role, unit>> \in (Roles \X {<<>>}) \cup ({"spec_review", "standards_review"} \X {<<Id("u1")>>})}

\* A proper report of each role.
Proper(invocation) ==
  [version |-> 1, identity |-> [invocation |-> invocation.id, run |-> Id("r1"), harness |-> "h",
                                role |-> invocation.role, stage |-> invocation.stage],
   summary |-> Line, dated |-> TRUE, outcome |-> "completed",
   handoff |-> IF invocation.kind = "handoff" THEN <<Handoff>> ELSE <<>>,
   testHandoff |-> IF invocation.kind = "test" THEN <<TestHandoff>> ELSE <<>>,
   reviewHandoff |-> IF invocation.kind = "review" THEN <<ReviewHandoff(invocation.unit)>> ELSE <<>>,
   pullRequest |-> IF invocation.kind = "summary" THEN <<Body>> ELSE <<>>,
   response |-> <<>>, questions |-> <<>>, evidence |-> <<>>,
   exemptions |-> <<>>, escalations |-> <<>>, blockers |-> <<>>, native |-> <<>>, usage |-> <<>>]

\* The proper ways to stop early.
Asking(invocation) ==
  [Proper(invocation) EXCEPT !.outcome = "needs_clarification", !.questions = <<Question("q")>>,
                             !.handoff = <<>>, !.testHandoff = <<>>, !.pullRequest = <<>>]
Blocked(invocation) ==
  [Proper(invocation) EXCEPT !.outcome = "cannot_proceed", !.evidence = <<Entry>>,
                             !.handoff = <<>>, !.testHandoff = <<>>, !.pullRequest = <<>>]

\* The values worth trying for a part of a report.
Variants(parts, base) == {base} \cup {[base EXCEPT ![p[1]] = p[2]] : p \in parts}
Pairs(part, values) == {part} \X values
Handoffs ==
  Variants(Pairs("changeSummary", LineTexts) \cup Pairs("commands", {<<>>, <<Line>>, <<Lines>>})
            \cup Pairs("mapping", {<<>>, Many(65, Mapping[1])})
            \cup Pairs("files", {<<>>, <<Winding>>, <<Path(<<"..", "a">>)>>, Paths(256, "code"), Paths(257, "code")})
            \cup Pairs("objections", {<<Objection(Line)>>, <<Objection(Line), Objection(Wide)>>, <<Objection(Blank)>>}),
          Handoff)
  \cup {[Handoff EXCEPT !.files = <<>>, !.objections = <<Objection(Line)>>],
        [Handoff EXCEPT !.files = Paths(256, "code"), !.objections = <<Objection(Line)>>]}
TestHandoffs ==
  Variants(Pairs("files", {<<>>, <<Code>>, <<SpecFile>>, <<Test, Test>>, Paths(256, "test"), Paths(257, "test")})
            \cup Pairs("command", LineTexts) \cup Pairs("evidence", {<<>>, Many(33, Entry)})
            \cup Pairs("infrastructure", {<<Test>>, <<Code>>}),
          TestHandoff)
Findings(unit) ==
  Variants(Pairs("claim", LineTexts) \cup Pairs("severity", {"advisory", "minor"}) \cup Pairs("category", {"taste", "style"})
            \cup Pairs("unit", {<<>>, <<Id("u2")>>})
            \cup Pairs("provenance", {[source |-> "none", name |-> "", hunk |-> Blank, observation |-> FALSE]}),
          Finding(unit))
ReviewHandoffs(unit) ==
  Variants(Pairs("sha", {"c2", "short"}) \cup Pairs("unit", {<<>>, <<Id("u2")>>})
            \cup Pairs("findings", {<<>>} \cup {Many(n, Finding(unit)) : n \in {16, 17, 64, 65}} \cup {<<f>> : f \in Findings(unit)}),
          ReviewHandoff(unit))
QuestionLists == {<<>>, <<Question("q"), Question("q")>>, <<[Question("q") EXCEPT !.id.class = "unicode"]>>}
                   \cup {Numbered(n, Question) : n \in {1, 32, 33}}

Parts(invocation) ==
  << Pairs("summary", LineTexts \cup {Wide}),
     Pairs("outcome", {"completed", "needs_clarification", "cannot_proceed"}),
     Pairs("handoff", {<<>>} \cup {<<h>> : h \in Handoffs}),
     Pairs("testHandoff", {<<>>} \cup {<<h>> : h \in TestHandoffs}),
     Pairs("reviewHandoff", {<<>>} \cup {<<h>> : h \in ReviewHandoffs(invocation.unit)}),
     Pairs("pullRequest", {<<>>, <<Body>>, <<[Body EXCEPT !.template = FALSE]>>, <<[Body EXCEPT !.blank = TRUE]>>}),
     Pairs("response", {<<>>, <<[decision |-> "accepted", reason |-> Line]>>, <<[decision |-> "rejected", reason |-> Line]>>}),
     Pairs("questions", QuestionLists \cup {<<Question("asked")>>}), Pairs("evidence", {Many(n, Entry) : n \in {0, 1, 32, 33}}),
     Pairs("exemptions", {<<>>, <<"technical">>, <<"other">>}),
     Pairs("usage", {<<>>, <<[available |-> TRUE, tokens |-> 0, costReported |-> FALSE, cost |-> 0, currency |-> ""]>>}) >>

\* Proper reports with two parts changed, and every way to stop early with one
\* part changed.
MCReports(invocation) ==
  LET parts == Parts(invocation)
      proper == Proper(invocation)
      Both(i, j) == {[proper EXCEPT ![p[1]] = p[2], ![q[1]] = q[2]] : p \in parts[i], q \in parts[j]}
      Early(i) == {[early EXCEPT ![p[1]] = p[2]] : p \in parts[i], early \in {Asking(invocation), Blocked(invocation)}}
  IN UNION ({Both(i, j) : <<i, j>> \in {<<i, j>> \in (DOMAIN parts) \X (DOMAIN parts) : i < j}}
            \cup {Early(i) : i \in DOMAIN parts})

Revision(n, dispute) == [attempt |-> n, outcome |-> "rejected", dispute |-> dispute]
Run == [id |-> Id("r1"), checkpoint |-> "c1", budget |-> 0, attempts |-> 0, history |-> <<>>, testSkipped |-> FALSE,
        testInvocation |-> <<Id("t1")>>, objection |-> <<>>, basePaths |-> <<>>, protected |-> <<Test>>,
        testHandoff |-> <<TestHandoff>>, roleHandoff |-> <<>>, summary |-> <<>>, pending |-> <<>>, active |-> <<Id("i1")>>,
        reviews |-> [role \in {"spec_review", "standards_review"} |-> <<>>]]
\* A fresh run, one in its last revision of this dispute or after one about
\* another, one with an open objection, and one with the other axis's questions.
MCRunRows ==
  {Run,
   [Run EXCEPT !.budget = 1, !.attempts = 1, !.history = <<Revision(1, "d1")>>],
   [Run EXCEPT !.budget = 2, !.attempts = 1, !.history = <<Revision(1, "d2")>>],
   [Run EXCEPT !.budget = 1, !.basePaths = <<Code>>, !.protected = Paths(256, "test"),
               !.objection = <<Objection(Line) @@ [invocation |-> Id("t1")]>>],
   [Run EXCEPT !.reviews["standards_review"] =
      <<[checkpoint |-> "c1", outcome |-> "needs_clarification", summary |-> Line, findings |-> <<>>,
         evidence |-> <<>>, questions |-> Numbered(32, Question)]>>]}

MCPacket == [testStage |-> TRUE, revisions |-> 1, automated |-> TRUE, answered |-> {Id("asked")},
           testPaths |-> <<Path(<<"spec">>)>>, testFileNames |-> {}, guidance |-> {"guide"}]
MCWorktrees == {<<>>, <<Code>>, <<Test>>, <<SpecFile>>, <<Code, Test>>, Paths(256, "code"), Paths(257, "code"), Paths(256, "test")}

MCDisputes == [key \in {<<test, Line>> : test \in {Line, Wide, Blank}} |-> "d1"]

\* The results of one of four units.
UnitResults(unit) ==
  {[role |-> "spec_review", unit |-> Id(unit), invocation |-> Id("i1"), checkpoint |-> "c1", summary |-> T("s", 2000, bytes),
    outcome |-> IF asks > 0 THEN "needs_clarification" ELSE IF shows > 0 THEN "cannot_proceed" ELSE "completed",
    questions |-> Numbered(asks, LAMBDA n : Question(IF n = "1" THEN "shared" ELSE unit \o n)),
    evidence |-> Many(shows, Entry), findings |-> Many(found, Finding(<<Id(unit)>>))] :
   <<bytes, found>> \in {<<2000, 0>>, <<4000, 16>>}, <<asks, shows>> \in {<<0, 0>>, <<8, 0>>, <<32, 0>>, <<0, 8>>, <<0, 32>>}}

MCAxes == {<<r1, r2, r3, r4>> : r1 \in UnitResults("u1"), r2 \in UnitResults("u2"),
                                r3 \in UnitResults("u3"), r4 \in UnitResults("u4")}
=============================================================================
