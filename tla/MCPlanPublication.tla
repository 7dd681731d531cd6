-------------------------- MODULE MCPlanPublication --------------------------
(* The publication of small plans, ordered by the publication order of      *)
(* their relationships.                                                     *)
EXTENDS PlanPublication, SequencesExt

Order == INSTANCE PlanOrder

\* Every previewed graph of n items with at most two relationships.
Graphs(n) == SeqOf(Order!Relationships(n), 2)

OrderedPlans(n) == {Order!OrderOperations(n, g) : g \in Graphs(n)} \ {<<>>}

\* One item that needs another.
LinkedPlan == {Order!OrderOperations(2, <<[from |-> 1, to |-> 2]>>)}

SinglePlan == {Order!OrderOperations(1, <<>>)}

\* The order is the reference order of every acyclic graph of up to three
\* items with up to two relationships, and only cycles are refused.
ASSUME OrderAssumption ==
  \A n \in 1..3 : \A g \in Graphs(n) :
    LET p == Order!OrderOperations(n, g)
    IN IF Order!IsCyclic(n, g) THEN p = <<>>
       ELSE Order!IsPublicationOrder(p, n, g) /\ IsLedgerPlan(p)

=============================================================================
