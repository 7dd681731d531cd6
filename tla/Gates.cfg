SPECIFICATION Spec
CONSTANTS
  NGates = 2
  Policies <- MCPolicies
  Runners = {r1, r2}
  MaxCheckpoints = 2
  MaxSuites <- MCMaxSuites
  MaxFaults = 1
SYMMETRY Symmetry
CHECK_DEADLOCK FALSE
INVARIANTS
  ReadyIsEarned
  ProofPredictsReadiness
PROPERTIES
  SuiteDecidesOnEvidence
