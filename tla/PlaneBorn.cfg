\* A forge user comments on an issue the bridge created.
CONSTANTS
  Repos = {"r1"}
  Projects = {"p1"}
  PlaneStates = {"todo", "done"}
  DefaultState = "todo"
  KeepsBodyMarker = FALSE
  KeepsCommentMarker = TRUE
  UniqueRefs = FALSE
  Budgets <- PlaneBornBudgets
  Workers = {w1}
  Configs <- OneLink
  Ordered = TRUE
  Retries = TRUE
  None = None
SPECIFICATION Spec
INVARIANTS EveryCommentAppears
CHECK_DEADLOCK FALSE
