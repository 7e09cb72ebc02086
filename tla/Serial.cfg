\* One handler; the sender waits for each answer and repeats on failure.
CONSTANTS
  Repos = {"r1"}
  Projects = {"p1"}
  PlaneStates = {"todo", "done"}
  DefaultState = "todo"
  KeepsBodyMarker = FALSE
  KeepsCommentMarker = TRUE
  UniqueRefs = FALSE
  Budgets <- SerialBudgets
  Workers = {w1}
  Configs <- FullOrPartial
  Ordered = TRUE
  Retries = TRUE
  None = None
SPECIFICATION Spec
INVARIANTS TypeOK OneMirror Converged NoCommentLost
CHECK_DEADLOCK FALSE
