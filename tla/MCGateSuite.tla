----------------------------- MODULE MCGateSuite -----------------------------
EXTENDS GateSuite, TLC

P(blocking, needs, files, targets) ==
    [blocking |-> blocking, needs |-> needs, files |-> files, targets |-> targets]

\* A blocking gate behind an advisory one with reusable setup, and an advisory
\* gate beside a blocking one that the issue names, without naming setup.
MCPolicies ==
    { P({2}, <<{}, {1}>>, TRUE, {0}),
      P({1}, <<{}, {}>>, FALSE, {1}) }

MCMaxSuites == [p \in Phases |-> IF p = "baseline" THEN 1 ELSE 2]

Symmetry == Permutations(Runners)

=============================================================================
