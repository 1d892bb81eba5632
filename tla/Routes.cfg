SPECIFICATION Spec
CONSTANTS
  Callers = {c1, c2}
  c1 = c1
  c2 = c2
  Routes <- ThreeRoutes
  Systems <- AllSystems
  Operations = {"create", "upsert", "delete", "get", "list"}
  MaxCalls = 3
  MaxFaults = 1
INVARIANT SuccessKeepsRoute
INVARIANT UpdateRepairs
INVARIANT DeleteRemoves
INVARIANT ReadBackStores
PROPERTY ForeignPolicyKept
\* the calls run out
CHECK_DEADLOCK FALSE
SYMMETRY Symmetry
