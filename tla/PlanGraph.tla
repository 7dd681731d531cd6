------------------------------ MODULE PlanGraph ------------------------------
(***************************************************************************)
(* What a draft plan must be to be stored (plangraph.Validate and the      *)
(* store's own integrity rules) and what a tracker makes of a stored plan  *)
(* before a person may approve it: the preflight of the GitHub and Azure   *)
(* DevOps adapters, which maps items and relationships onto the target,    *)
(* and the execution order of the publication.                             *)
(*                                                                         *)
(* Two orders meet here.  Validation says when an item is done: a parent   *)
(* after its children.  Publication says when it is created: a child after *)
(* its parent.                                                             *)
(***************************************************************************)
EXTENDS Naturals, Sequences, FiniteSets, FiniteSetsExt, SequencesExt, Functions

CONSTANTS Drafts,   \* the drafts a planning role or an editor may submit
          Targets   \* the trackers a stored plan may be published to

Order == INSTANCE PlanOrder

\* plangraph.go:32-42, github/plan.go:307-312
MaxPlanNodes == 25
MaxAcceptanceCriteria == 12
MaxDependencies == 10
MinParentChildren == 2
MaxSubIssuesPerParent == 100
MaxSubIssueDepth == 8

Kinds == {"task", "investigation", "parent"}

\* An identity is a tuple, because an adapter derives identities by appending
\* to one; NoId is the absent parent.
NoId == <<>>

\* One node of a draft.  text stands for its title, body and criteria: "quotes"
\* contains the factory's marker, "long" fits the report but no tracker.
NodeOK(n) ==
  /\ n.id \in Seq(STRING) /\ n.parent \in Seq(STRING)
  /\ n.needs \in Seq(Seq(STRING)) /\ n.criteria \in Nat
  /\ n.title \in BOOLEAN /\ n.body \in BOOLEAN /\ n.cites \in BOOLEAN
  /\ n.text \in {"ok", "quotes", "long"}

ASSUME PlanGraphAssumption ==
  \A d \in Drafts : \A i \in DOMAIN d : NodeOK(d[i])

VARIABLES stage,     \* draft, refused, stored, previewed, or unpublishable
          draft,     \* the nodes submitted, in plan order
          problems,  \* what validation reported
          preview    \* what the last preflight of the stored plan returned

vars == <<stage, draft, problems, preview>>

-----------------------------------------------------------------------------
(* Integrity: what the store refuses by itself *)

IdsOf(g) == {g[i].id : i \in DOMAIN g}
Place(g, id) == CHOOSE i \in DOMAIN g : g[i].id = id
Node(g, id) == g[Place(g, id)]

ValidatePlanIntegrity(g) ==
  /\ g # <<>>
  /\ Cardinality(IdsOf(g)) = Len(g)
  /\ \A n \in Range(g) :
       /\ n.id # NoId /\ n.kind # "" /\ n.title
       /\ n.parent \in ({NoId} \cup IdsOf(g)) \ {n.id}
       /\ Range(n.needs) \subseteq IdsOf(g) \ {n.id}

ValidatePlanNodes(g) == ValidatePlanIntegrity(g) /\ \A n \in Range(g) : n.cites

-----------------------------------------------------------------------------
(* Structure: the rules of internal/plangraph *)

Problem(id, rule) == [node |-> id, rule |-> rule, cycle |-> <<>>]
CycleProblem(cycle) == [node |-> Head(cycle), rule |-> "cycle", cycle |-> cycle]
ReportIf(condition, id, rule) == IF condition THEN {Problem(id, rule)} ELSE {}

ContentProblems(n) ==
  ReportIf(n.kind \notin Kinds, n.id, "kind")
  \cup ReportIf(~n.body \/ n.criteria = 0, n.id, "required_content")

LimitProblems(n) ==
  ReportIf(n.criteria > MaxAcceptanceCriteria \/ Len(n.needs) > MaxDependencies, n.id, "limit")

\* newGraph: the children of a node in plan order.
Children(g, id) ==
  LET own == SelectSeq(g, LAMBDA n : n.parent = id)
  IN [i \in DOMAIN own |-> own[i].id]

Structure(g, n) ==
  LET children == Len(Children(g, n.id))
  IN ReportIf(\/ n.kind = "parent" /\ (children < MinParentChildren \/ n.parent # NoId)
              \/ n.kind # "parent" /\ children # 0
              \/ Cardinality(Range(n.needs)) # Len(n.needs), n.id, "structure")

StructureProblems(g) == UNION {Structure(g, n) : n \in Range(g)}

\* The nodes that must be done before id: its children, then its dependencies.
After(g, id) == Children(g, id) \o Node(g, id).needs

\* Mutant: the search reports a cycle as it met it.
UnrotatedCycle(g, cycle) == cycle

\* A cycle from its first node of the plan, however the search came upon it.
CanonicalCycle(g, cycle) ==
  LET start == CHOOSE i \in DOMAIN cycle :
        \A j \in DOMAIN cycle : Place(g, cycle[i]) <= Place(g, cycle[j])
  IN SubSeq(cycle, start, Len(cycle)) \o SubSeq(cycle, 1, start - 1)

\* The chain from id upwards until it ends or would repeat a node.
ParentChain(g, id) ==
  LET Chain[k \in 1..Len(g)] ==
        IF k = 1 THEN <<id>>
        ELSE LET chain == Chain[k - 1]
                 above == Node(g, Last(chain)).parent
             IN IF above = NoId \/ above \in Range(chain) THEN chain ELSE Append(chain, above)
  IN Chain[Len(g)]

ParentCycles(g) ==
  {LET chain == ParentChain(g, id)
       again == Node(g, Last(chain)).parent
   IN CycleProblem(CanonicalCycle(g, SubSeq(chain, SelectInSeq(chain, LAMBDA x : x = again), Len(chain)))) :
     id \in {x \in IdsOf(g) : Node(g, Last(ParentChain(g, x))).parent # NoId}}

\* The depth-first search: s has the state of every node, the open stack and
\* the cycles met so far.
RECURSIVE Visit(_, _, _)
Visit(g, s, id) ==
  LET opened == [s EXCEPT !.state[id] = "visiting", !.stack = Append(@, id)]
      Step(t, next) ==
        CASE t.state[next] = "unvisited" -> Visit(g, t, next)
          [] t.state[next] = "visiting" ->
               LET from == SelectInSeq(t.stack, LAMBDA x : x = next)
               IN [t EXCEPT !.cycles = @ \cup {CanonicalCycle(g, SubSeq(t.stack, from, Len(t.stack)))}]
          [] OTHER -> t
      closed == FoldLeft(Step, opened, After(g, id))
  IN [closed EXCEPT !.stack = Front(@), !.state[id] = "done"]

\* Mutant: only the first item of the plan is searched from.
OrderingCyclesOfFirst(g) ==
  LET start == [state |-> [id \in IdsOf(g) |-> "unvisited"], stack |-> <<>>, cycles |-> {}]
  IN {CycleProblem(c) : c \in Visit(g, start, g[1].id).cycles}

OrderingCycles(g) ==
  LET start == [state |-> [id \in IdsOf(g) |-> "unvisited"], stack |-> <<>>, cycles |-> {}]
      Search(s, n) == IF s.state[n.id] = "unvisited" THEN Visit(g, s, n.id) ELSE s
  IN {CycleProblem(c) : c \in FoldLeft(Search, start, g).cycles}

\* Every problem of a draft; a draft without integrity is not looked at further.
ValidatePlanGraph(g) ==
  IF ~ValidatePlanIntegrity(g) THEN {Problem(NoId, "integrity")}
  ELSE ReportIf(Len(g) > MaxPlanNodes, NoId, "limit")
       \cup UNION {ContentProblems(n) \cup LimitProblems(n) : n \in Range(g)}
       \cup StructureProblems(g)
       \cup (IF ParentCycles(g) # {} THEN ParentCycles(g) ELSE OrderingCycles(g))

-----------------------------------------------------------------------------
(* Previews *)

Failed(error) == [error |-> error, items |-> <<>>, links |-> <<>>]

\* The first error of a sequence of checks, or "".
FirstError(checks) ==
  LET errors == SelectSeq(checks, LAMBDA e : e # "")
  IN IF errors = <<>> THEN "" ELSE Head(errors)

ErrorIf(condition, error) == IF condition THEN error ELSE ""

Link(kind, from, to, mode) == [kind |-> kind, from |-> from, to |-> to, mode |-> mode]

\* The relationships of one item: its parent, then its dependencies.
LinksOf(n, mode) ==
  (IF n.parent = NoId THEN <<>> ELSE <<Link("parent", n.id, n.parent, mode["parent"])>>)
  \o [i \in DOMAIN n.needs |-> Link("depends_on", n.id, n.needs[i], mode["depends_on"])]

-----------------------------------------------------------------------------
(***************************************************************************)
(* GitHub.  A target has what the account may do, whether issues are open, *)
(* and the relationship kinds the host offers natively.                    *)
(***************************************************************************)

CheckPlanContent(g) ==
  ErrorIf(\E n \in Range(g) : n.text = "quotes", "invalid_mapping")

CheckIssueCreation(t) ==
  IF t.may = "none" \/ t.archived THEN "permission"
  ELSE ErrorIf(~t.issues, "unsupported_capability")

RelationshipModes(t) ==
  [kind \in {"parent", "depends_on"} |-> IF kind \in t.native THEN "native" ELSE "textual"]

PlanRelationships(t, g) ==
  FlattenSeq([i \in DOMAIN g |-> LinksOf(g[i], RelationshipModes(t))])

CheckNativeLinkAccess(t, links) ==
  ErrorIf(t.may # "triage" /\ \E l \in Range(links) : l.mode = "native", "permission")

CheckSubIssueLimits(t, g) ==
  ErrorIf(/\ "parent" \in t.native
          /\ \E n \in Range(g) : \/ Len(Children(g, n.id)) > MaxSubIssuesPerParent
                                 \/ Len(ParentChain(g, n.id)) > MaxSubIssueDepth + 1,
          "unsupported_capability")

ValidatePlanIssue(n) == ErrorIf(n.text = "long", "invalid_mapping")

GithubPreflight(t, g) ==
  LET links == PlanRelationships(t, g)
      error == FirstError(<<CheckPlanContent(g), CheckIssueCreation(t),
                            CheckNativeLinkAccess(t, links), CheckSubIssueLimits(t, g)>>
                          \o [i \in DOMAIN g |-> ValidatePlanIssue(g[i])])
  IN IF error # "" THEN Failed(error)
     ELSE [error |-> "", links |-> links,
           items |-> [i \in DOMAIN g |-> [id |-> g[i].id, level |-> 0]]]

-----------------------------------------------------------------------------
(***************************************************************************)
(* Azure DevOps.  A target has the configured levels, top down - the kinds *)
(* mapped to each, whether it may be skipped, and the fields it sets - and *)
(* the project: permissions, types, backlog ranks, mandatory and accepted  *)
(* fields, the category of a configured state, and link types.             *)
(***************************************************************************)

\* A field of a level is set by the configuration, by the adapter or by the
\* server; "state" is System.State.
AdapterFields == {"title", "description", "tags"}
ServerFields == {"area", "state"}

LevelValidate(level) == level.type # "" /\ level.fields \cap AdapterFields = {}

MappingValidate(m) ==
  /\ m # <<>> /\ UNION {l.kinds : l \in Range(m)} # {}
  /\ \A l \in Range(m) : LevelValidate(l)
  /\ \A j, k \in DOMAIN m : j # k => m[j].type # m[k].type /\ m[j].kinds \cap m[k].kinds = {}

\* The level of a kind, 0 if it is mapped to none.
LevelOf(m, kind) == Max({0} \cup {k \in DOMAIN m : kind \in m[k].kinds})

\* The required levels a parent link from level below to level above skips.
Skipped(m, above, below) == {k \in above + 1 .. below - 1 : m[k].required}

IntermediateId(m, parent, level) == Append(parent.id, m[level].type)

\* Mutant: an intermediate item hangs below the plan parent itself.
ParentDirectly(m, parent, level) == parent.id

\* What an item at level hangs below: the lowest required level that its link
\* to parent skips, or the parent itself.
Above(m, parent, level) ==
  LET skipped == Skipped(m, LevelOf(m, parent.kind), level)
  IN IF skipped = {} THEN parent.id ELSE IntermediateId(m, parent, Max(skipped))

\* The intermediate items below parent: one per level, shared by its children.
Intermediates(m, g, parent) ==
  LET levels == UNION {Skipped(m, LevelOf(m, parent.kind), LevelOf(m, Node(g, c).kind)) :
                         c \in Range(Children(g, parent.id))}
      ordered == SetToSortSeq(levels, <)
  IN [i \in DOMAIN ordered |->
        [id |-> IntermediateId(m, parent, ordered[i]), level |-> ordered[i],
         parent |-> Above(m, parent, ordered[i]), needs |-> <<>>]]

\* A child must be on a lower level than its parent.
CheckHierarchy(m, g, n) ==
  ErrorIf(n.parent # NoId /\ LevelOf(m, n.kind) <= LevelOf(m, Node(g, n.parent).kind),
          "unsupported_capability")

\* An intermediate item needs an identity that no plan node has.
IntermediateNode(m, g, parent) ==
  ErrorIf(\E n \in Range(Intermediates(m, g, parent)) : n.id \in IdsOf(g), "invalid_mapping")

\* Titles, descriptions and tags that Azure DevOps can not hold.
ValidatePlanItem(n) == ErrorIf(n.text = "long", "invalid_mapping")

\* Both ends of every link are native.
NodeRelationships(n) == LinksOf(n, [kind \in {"parent", "depends_on"} |-> "native"])

ResolvePlan(m, g) ==
  LET Resolved(n) ==
        [id |-> n.id, level |-> LevelOf(m, n.kind), needs |-> n.needs,
         parent |-> IF n.parent = NoId THEN NoId
                    ELSE Above(m, Node(g, n.parent), LevelOf(m, n.kind))]
      nodes == FlattenSeq([i \in DOMAIN g |-> <<Resolved(g[i])>> \o Intermediates(m, g, g[i])])
      unmapped == [i \in DOMAIN g |-> ErrorIf(LevelOf(m, g[i].kind) = 0, "invalid_mapping")]
      placed == [i \in DOMAIN g |-> FirstError(<<CheckHierarchy(m, g, g[i]), IntermediateNode(m, g, g[i])>>)]
      rendered == [i \in DOMAIN g |-> ValidatePlanItem(g[i])]
      error == FirstError(unmapped \o placed \o rendered)
  IN IF error # "" THEN Failed(error)
     ELSE [error |-> "",
           items |-> [i \in DOMAIN nodes |-> [id |-> nodes[i].id, level |-> nodes[i].level]],
           links |-> FlattenSeq([i \in DOMAIN nodes |-> NodeRelationships(nodes[i])])]

CheckPlanPermissions(t) == ErrorIf(t.can # {"work_items", "tags"}, "permission")

\* Every mapped type is on a backlog level, in strictly descending rank.
CheckBacklogOrder(t) ==
  ErrorIf(\E k \in DOMAIN t.levels :
            \/ t.levels[k].type \notin DOMAIN t.rank
            \/ k > 1 /\ t.rank[t.levels[k].type] >= t.rank[t.levels[k - 1].type],
          "unsupported_capability")

CheckInitialState(t) == ErrorIf(~t.proposed, "invalid_mapping")

\* The field may be written and its configured value has the field's type.
CheckFieldValue(t, field) == ErrorIf(field \notin t.accepts, "invalid_mapping")

\* Every configured field is accepted, every mandatory one gets a value, and a
\* configured state is one in which nobody has started.
CheckFields(t, level) ==
  FirstError(<<ErrorIf(\E f \in level.fields : CheckFieldValue(t, f) # "", "invalid_mapping"),
               IF "state" \in level.fields THEN CheckInitialState(t) ELSE "",
               ErrorIf(~(t.mandatory \subseteq level.fields \cup AdapterFields \cup ServerFields),
                       "invalid_mapping")>>)

CheckLinkTypes(t, links) ==
  ErrorIf(~({l.kind : l \in Range(links)} \subseteq t.links), "unsupported_capability")

CheckProcess(t, links) ==
  FirstError(<<ErrorIf(\E l \in Range(t.levels) : l.type \notin t.types, "invalid_mapping"),
               CheckBacklogOrder(t)>>
             \o [k \in DOMAIN t.levels |-> CheckFields(t, t.levels[k])]
             \o <<CheckLinkTypes(t, links)>>)

AzurePreflight(t, g) ==
  IF ~MappingValidate(t.levels) THEN Failed("invalid_mapping")
  ELSE LET resolved == ResolvePlan(t.levels, g)
           error == FirstError(<<resolved.error, CheckPlanPermissions(t),
                                 CheckProcess(t, resolved.links)>>)
       IN IF error # "" THEN Failed(error) ELSE resolved

-----------------------------------------------------------------------------
(* The execution order of a preview *)

\* Identities are there and do not repeat, and a relationship joins two
\* different items once.
ValidatePreview(p) ==
  LET ids == {p.items[i].id : i \in DOMAIN p.items}
  IN /\ p.items # <<>> /\ Cardinality(ids) = Len(p.items) /\ NoId \notin ids
     /\ \A l \in Range(p.links) : l.from \in ids /\ l.to \in ids /\ l.from # l.to
     /\ \A i, j \in DOMAIN p.links : i # j =>
          <<p.links[i].kind, p.links[i].from, p.links[i].to>>
            # <<p.links[j].kind, p.links[j].from, p.links[j].to>>

OrderOperations(p) ==
  Order!OrderOperations(Len(p.items),
    [i \in DOMAIN p.links |-> [from |-> Place(p.items, p.links[i].from),
                               to |-> Place(p.items, p.links[i].to)]])

PreflightPlan(t, g) ==
  IF t.provider = "github" THEN GithubPreflight(t, g) ELSE AzurePreflight(t, g)

\* A preview with its target and its ledger; it is refused when it has none.
Render(t, g) ==
  LET p == PreflightPlan(t, g)
      error == IF p.error # "" THEN p.error
               ELSE IF ~ValidatePreview(p) \/ OrderOperations(p) = <<>> THEN "invalid_payload" ELSE ""
  IN [target |-> t, error |-> error, items |-> p.items, links |-> p.links,
      ledger |-> IF error = "" THEN OrderOperations(p) ELSE <<>>]

NoPreview == [target |-> "", error |-> "none", items |-> <<>>, links |-> <<>>, ledger |-> <<>>]

-----------------------------------------------------------------------------
Init == /\ stage = "draft" /\ draft \in Drafts
        /\ problems = {} /\ preview = NoPreview

\* A role's report or an edit that breaks a rule is refused as a whole.
RefuseDraft ==
  /\ stage = "draft"
  /\ problems' = ValidatePlanGraph(draft)
  /\ problems' # {} \/ ~ValidatePlanNodes(draft)
  /\ stage' = "refused"
  /\ UNCHANGED <<draft, preview>>

StoreDraft ==
  /\ stage = "draft"
  /\ problems' = ValidatePlanGraph(draft)
  /\ problems' = {} /\ ValidatePlanNodes(draft)
  /\ stage' = "stored"
  /\ UNCHANGED <<draft, preview>>

\* A preview of the stored plan; approve renders it the same way.
Preview(t) ==
  /\ stage = "stored"
  /\ preview' = Render(t, draft)
  /\ stage' = IF preview'.error = "" THEN "previewed" ELSE "unpublishable"
  /\ UNCHANGED <<draft, problems>>

Next == RefuseDraft \/ StoreDraft \/ \E t \in Targets : Preview(t)

Spec == Init /\ [][Next]_vars

-----------------------------------------------------------------------------
(* Properties *)

TypeOK ==
  /\ stage \in {"draft", "refused", "stored", "previewed", "unpublishable"}
  /\ draft \in Drafts
  /\ \A p \in problems : p.rule \in {"integrity", "kind", "required_content", "cycle", "structure", "limit"}
  /\ preview.target \in Targets \/ preview = NoPreview

\* A pair of nodes of which the first is done only after the second.
Waits(g) == {<<a, b>> \in IdsOf(g) \X IdsOf(g) : b \in Range(After(g, a))}

\* Everything reached from id over a relation of nodes, id itself only over a
\* cycle.
Reached(g, relation, id) ==
  LET Reach[k \in 0..Len(g)] ==
        IF k = 0 THEN {b \in IdsOf(g) : <<id, b>> \in relation}
        ELSE LET before == Reach[k - 1]
             IN before \cup {b \in IdsOf(g) : \E a \in before : <<a, b>> \in relation}
  IN Reach[Len(g)]

\* A cycle is reported exactly when the completion order or the hierarchy has
\* one, every one that is reported exists, and none is reported twice under two
\* names; and a stored plan always has an order of publication unless a parent
\* itself depends on something, where the two orders may contradict
\* (plangraph graph.go orderingCycles, publication order.go orderOperations).
CyclesAreReported ==
  LET cycles == {p.cycle : p \in {q \in problems : q.rule = "cycle"}}
      Ascents == {<<a, Node(draft, a).parent>> : a \in IdsOf(draft)}
      Cyclic(relation) == \E id \in IdsOf(draft) : id \in Reached(draft, relation, id)
  IN stage # "draft" /\ ValidatePlanIntegrity(draft) =>
     /\ cycles # {} <=> Cyclic(Waits(draft)) \/ Cyclic(Ascents)
     /\ \A c \in cycles : \A i \in DOMAIN c :
          <<c[i], IF i = Len(c) THEN c[1] ELSE c[i + 1]>> \in Waits(draft) \cup Ascents
     /\ \A c \in cycles : \A i \in 2..Len(c) :
          SubSeq(c, i, Len(c)) \o SubSeq(c, 1, i - 1) \notin cycles
     /\ preview.error = "invalid_payload" =>
          \E n \in Range(draft) : n.kind = "parent" /\ n.needs # <<>>

\* What a person may approve is the stored plan: every node once and in order,
\* every dependency, every child below its parent, no parent link across a
\* required level, nothing that no child needs, and a ledger that creates
\* everything after what it needs (preflight of both adapters, publication.go
\* render).
PreviewIsThePlan ==
  stage = "previewed" =>
    LET items == preview.items
        links == Range(preview.links)
        added == IdsOf(items) \ IdsOf(draft)
        Ascents == {<<l.from, l.to>> : l \in {x \in links : x.kind = "parent"}}
        Level(id) == Node(items, id).level
        required == IF preview.target.provider = "github" THEN {}
                    ELSE {k \in DOMAIN preview.target.levels : preview.target.levels[k].required}
    IN /\ SelectSeq(items, LAMBDA i : i.id \notin added)
            = [k \in DOMAIN draft |-> [id |-> draft[k].id, level |-> Level(draft[k].id)]]
       /\ {<<l.from, l.to>> : l \in {x \in links : x.kind = "depends_on"}}
            = UNION {{<<n.id, x>> : x \in Range(n.needs)} : n \in Range(draft)}
       /\ \A n \in Range(draft) : n.parent # NoId => n.parent \in Reached(items, Ascents, n.id)
       /\ \A e \in Ascents : \A k \in required : ~(Level(e[2]) < k /\ k < Level(e[1]))
       /\ \A id \in added : id \in {e[1] : e \in Ascents} \cap {e[2] : e \in Ascents}
       /\ Order!IsPublicationOrder(preview.ledger, Len(items),
            [i \in DOMAIN preview.links |->
               [from |-> Place(items, preview.links[i].from), to |-> Place(items, preview.links[i].to)]])

=============================================================================
