------------------------------ MODULE PlanOrder ------------------------------
(***************************************************************************)
(* The order in which an approved plan is published (orderOperations in    *)
(* internal/publication/order.go).  Items are named by their position in   *)
(* the preview, 1..n; a relationship says that item from needs item to     *)
(* (its parent or its dependency).                                         *)
(***************************************************************************)
EXTENDS Naturals, Sequences, FiniteSetsExt, Functions

ItemOperation(k) == [kind |-> "create_item", node |-> k]
LinkOperation(r) ==
  [kind |-> "create_relationship", from |-> r.from, to |-> r.to]

Relationships(n) == {r \in [from : 1..n, to : 1..n] : r.from # r.to}

\* Items whose needs are all placed; needs[index] counts the others.
Unlocked(n, rels, placed) ==
  {k \in 1..n \ placed :
     \A r \in Range(rels) : r.from = k => r.to \in placed}

\* Always the first unlocked item of the preview, then every relationship in
\* preview order.  A cycle leaves no item unlocked: the preview is refused,
\* here with the empty ledger.
OrderOperations(n, rels) ==
  LET Placed[k \in 0..n] ==
        IF k = 0 THEN <<>>
        ELSE LET before == Placed[k - 1]
                 ready == Unlocked(n, rels, Range(before))
             IN IF ready = {} THEN before ELSE Append(before, Min(ready))
      order == Placed[n]
  IN IF Len(order) < n THEN <<>>
     ELSE [k \in 1..n |-> ItemOperation(order[k])]
          \o [k \in 1..Len(rels) |-> LinkOperation(rels[k])]

-----------------------------------------------------------------------------
(* What the order is for, stated without the algorithm *)

\* Every item reachable over needs, by the transitive closure of rels.
Needs(n, rels) ==
  LET edge == {<<r.from, r.to>> : r \in Range(rels)}
      Reach[k \in 0..n] ==
        IF k = 0 THEN edge
        ELSE LET before == Reach[k - 1]
             IN before \cup
                {<<a, b>> \in (1..n) \X (1..n) :
                   \E c \in 1..n : <<a, c>> \in before /\ <<c, b>> \in before}
  IN Reach[n]

IsCyclic(n, rels) == \E k \in 1..n : <<k, k>> \in Needs(n, rels)

\* p creates every item once, after everything it needs; an item is placed
\* before an earlier one of the preview only if it has to be, that is, if
\* the earlier one needs an item placed no earlier than it; the
\* relationships follow in preview order.
IsPublicationOrder(p, n, rels) ==
  LET Place(k) == CHOOSE i \in 1..n : p[i] = ItemOperation(k)
  IN /\ Len(p) = n + Len(rels)
     /\ {p[i] : i \in 1..n} = {ItemOperation(k) : k \in 1..n}
     /\ \A r \in Range(rels) : Place(r.to) < Place(r.from)
     /\ \A j, k \in 1..n : (j < k /\ Place(k) < Place(j)) =>
          \E m \in 1..n : <<j, m>> \in Needs(n, rels) /\ Place(m) >= Place(k)
     /\ \A i \in 1..Len(rels) : p[n + i] = LinkOperation(rels[i])

=============================================================================
