\* Two repositories, a restart with other links, and a Plane that strips markers.
CONSTANTS
  Repos = {"r1", "r2"}
  Projects = {"p1", "p2"}
  PlaneStates = {"todo", "done"}
  DefaultState = "todo"
  KeepsBodyMarker = FALSE
  KeepsCommentMarker = FALSE
  UniqueRefs = FALSE
  Budgets <- RewiredBudgets
  Workers = {w1, w2}
  Configs <- Rewired
  Ordered = FALSE
  Retries = TRUE
  None = None
SPECIFICATION FairSpec
INVARIANTS RightProject
PROPERTIES Settles EventuallyMirrored
CHECK_DEADLOCK FALSE
