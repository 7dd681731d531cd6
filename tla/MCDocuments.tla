----------------------------- MODULE MCDocuments -----------------------------
(***************************************************************************)
(* Three documents that one side hands to another under limits each side   *)
(* has of its own: a draft plan, from its role over the store to a tracker *)
(* (PlanGraph); the diff of a checkpoint, from the coordinator to its      *)
(* reviewers (ReviewPartition); and a report, from its role over the       *)
(* coordinator into the store (ReportRoute).  A behaviour is about one of  *)
(* them.                                                                   *)
(***************************************************************************)
EXTENDS PlanGraph, ReviewPartition, ReportCases

-----------------------------------------------------------------------------
(* Plans: every graph of three items, mixed graphs of a parent with two
   children and an outsider, and one draft for each other rule; the default
   and a stricter process of Azure DevOps, and GitHub targets of every kind *)

a == <<"a">>
b == <<"b">>
c == <<"c">>
d == <<"d">>

N(id, kind, parent, needs) ==
  [id |-> id, kind |-> kind, parent |-> parent, needs |-> needs,
   title |-> TRUE, body |-> TRUE, criteria |-> 1, cites |-> TRUE, text |-> "ok"]

Others(ids, id) == ids \ {id}
NeedsOf(ids, id) == {SetToSeq(s) : s \in SUBSET Others(ids, id)}

ThreeItems ==
  {<<N(a, k[1], p[1], x), N(b, k[2], p[2], y), N(c, k[3], p[3], z)>> :
     k \in [1..3 -> {"task", "parent"}],
     p \in [1..3 -> {NoId, a, b, c}],
     x \in NeedsOf({a, b, c}, a), y \in NeedsOf({a, b, c}, b), z \in NeedsOf({a, b, c}, c)}

ParentAndOutsider ==
  LET ids == {a, b, c, d}
  IN {<<N(b, "task", a, x), N(a, "parent", NoId, y), N(c, "investigation", a, z), N(d, "task", NoId, w)>> :
        x \in NeedsOf(ids, b), y \in NeedsOf(ids, a), z \in NeedsOf(ids, c), w \in NeedsOf(ids, d)}

\* Two parents that depend on each other's children.
Crossed == <<N(a, "parent", NoId, <<<<"y">>>>), N(b, "task", a, <<>>), N(c, "task", a, <<>>),
             N(<<"x">>, "parent", NoId, <<b>>), N(<<"y">>, "task", <<"x">>, <<>>), N(<<"z">>, "task", <<"x">>, <<>>)>>

Long(n, needs) == [i \in 1..n |-> N(<<ToString(i)>>, "task", NoId, IF i = 1 THEN needs ELSE <<>>)]

\* A node that has the identity of an intermediate item.
Taken == <<N(a, "parent", NoId, <<>>), N(b, "task", a, <<>>), N(c, "task", a, <<>>),
           N(<<"a", "feature">>, "task", NoId, <<>>)>>

Single == N(a, "task", NoId, <<>>)
Pair == <<Single, N(b, "task", NoId, <<a>>)>>

Defects ==
  {<<>>, <<Single, Single>>, Crossed, Taken, Pair,
   Long(26, <<>>),
   Long(12, [i \in 1..11 |-> <<ToString(i + 1)>>]),
   <<[Single EXCEPT !.kind = "epic"]>>, <<[Single EXCEPT !.kind = ""]>>,
   <<[Single EXCEPT !.title = FALSE]>>, <<[Single EXCEPT !.body = FALSE]>>,
   <<[Single EXCEPT !.criteria = 0]>>, <<[Single EXCEPT !.criteria = 13]>>,
   <<[Single EXCEPT !.cites = FALSE]>>, <<[Single EXCEPT !.text = "quotes"]>>,
   <<[Single EXCEPT !.text = "long"]>>, <<[Single EXCEPT !.needs = <<b>>]>>,
   <<[Pair[2] EXCEPT !.needs = <<a, a>>], Single>>}

MCDrafts == ThreeItems \cup ParentAndOutsider \cup Defects

Github == [provider |-> "github", may |-> "triage", archived |-> FALSE, issues |-> TRUE,
           native |-> {"parent", "depends_on"}]

GithubTargets ==
  {[Github EXCEPT !.may = m, !.native = n] :
     m \in {"none", "read", "triage"}, n \in SUBSET {"parent", "depends_on"}}
  \cup {[Github EXCEPT !.archived = TRUE], [Github EXCEPT !.issues = FALSE]}

Level(type, kinds, required) == [type |-> type, kinds |-> kinds, required |-> required, fields |-> {}]

\* The Agile default: an optional Feature level.
Agile ==
  [provider |-> "azure_devops",
   levels |-> <<Level("epic", {"parent"}, FALSE), Level("feature", {}, FALSE),
                Level("story", {"task", "investigation"}, FALSE)>>,
   can |-> {"work_items", "tags"}, types |-> {"epic", "feature", "story", "task"},
   rank |-> [t \in {"epic", "feature", "story", "task"} |->
               CASE t = "epic" -> 4 [] t = "feature" -> 3 [] t = "story" -> 2 [] OTHER -> 1],
   mandatory |-> {"title", "area"}, accepts |-> {"state", "risk"}, proposed |-> TRUE,
   links |-> {"parent", "depends_on"}]

\* A process that requires the levels between a parent and its children, which
\* are on two levels.
Strict ==
  [Agile EXCEPT !.levels = <<Level("epic", {"parent"}, FALSE), Level("feature", {}, TRUE),
                             Level("story", {"investigation"}, TRUE), Level("task", {"task"}, FALSE)>>]

AzureTargets ==
  {Agile, Strict,
   [Agile EXCEPT !.levels = <<Level("story", {"task", "parent", "investigation"}, FALSE)>>],
   [Agile EXCEPT !.levels = <<Level("epic", {"parent"}, FALSE)>>],
   [Agile EXCEPT !.levels = <<Level("story", {"task", "investigation"}, FALSE), Level("epic", {"parent"}, FALSE)>>],
   [Agile EXCEPT !.levels[2].kinds = {"task"}],
   [Agile EXCEPT !.levels[3].fields = {"state", "risk"}, !.mandatory = {"risk"}, !.levels[2] = Level("epic", {}, FALSE)],
   [Agile EXCEPT !.levels[3].fields = {"tags"}],
   [Agile EXCEPT !.levels[3].fields = {"state"}],
   [Agile EXCEPT !.levels[3].fields = {"state"}, !.proposed = FALSE],
   [Agile EXCEPT !.levels[3].fields = {"iteration"}],
   [Agile EXCEPT !.mandatory = {"risk"}],
   [Agile EXCEPT !.types = {"epic", "story"}],
   [Agile EXCEPT !.rank = [t \in {"epic", "story"} |-> 1]],
   [Agile EXCEPT !.can = {"work_items"}],
   [Agile EXCEPT !.links = {"parent"}]}

MCTargets == GithubTargets \cup AzureTargets

-----------------------------------------------------------------------------
(* Diffs of few short lines *)

DiffLine(kind, size) == [kind |-> kind, size |-> size]
DiffLines == {DiffLine("new", 1), DiffLine("both", 1), DiffLine("old", 2)}
Hunk(body) == [header |-> 1, parses |-> TRUE, old |-> 1, new |-> 1, body |-> body]
File(hunks) == [header |-> 1, nonText |-> FALSE, hunks |-> hunks]

\* Bytes behind the last hunk, and a file that is changed without lines.
Marker == [Hunk(<<DiffLine("both", 1)>>) EXCEPT !.parses = FALSE]
Binary == [header |-> 2, nonText |-> TRUE, hunks |-> <<>>]

BodiesOf(n) == UNION {[1..k -> DiffLines] : k \in 0..n}

\* One hunk of up to four lines; one of up to three with trailing bytes, beside
\* a binary file; two of up to two (bound).
Diffs ==
  {<<>>, <<Binary, Binary>>}
  \cup {<<File(<<Hunk(one)>>)>> : one \in BodiesOf(4)}
  \cup {<<[File(<<Hunk(one), Marker>>) EXCEPT !.nonText = TRUE], Binary>> : one \in BodiesOf(3) \ {<<>>}}
  \cup {<<Binary, File(<<Hunk(one), Hunk(two)>>)>> : one \in BodiesOf(2), two \in BodiesOf(2)}

\* Limits from below one headed line to above most files (bound).
Policies == [maxBytes : 2..7, maxUnits : {0}, context : {1, 2}]

MCCheckpoints == [diff : Diffs, policy : Policies]

-----------------------------------------------------------------------------
NoPlan == stage = "none" /\ draft = <<>> /\ problems = {} /\ preview = NoPreview
NoDiff == split = "none" /\ checkpoint = <<>> /\ manifest = <<>>
NoReport == route = "none" /\ document = <<>> /\ seen = NotSeen

DocumentInit ==
  \/ Init /\ NoDiff /\ NoReport
  \/ SplitInit /\ NoPlan /\ NoReport
  \/ RouteInit /\ NoPlan /\ NoDiff

DocumentNext ==
  \/ Next /\ UNCHANGED <<splitVars, routeVars>>
  \/ SplitNext /\ UNCHANGED <<vars, routeVars>>
  \/ RouteNext /\ UNCHANGED <<vars, splitVars>>

DocumentSpec == DocumentInit /\ [][DocumentNext]_<<vars, splitVars, routeVars>>

=============================================================================
