\* One "opened" delivery is handled twice at the same time.
CONSTANTS
  Repos = {"r1"}
  Projects = {"p1"}
  PlaneStates = {"todo", "done"}
  DefaultState = "todo"
  KeepsBodyMarker = FALSE
  KeepsCommentMarker = TRUE
  UniqueRefs = FALSE
  Budgets <- OneFault
  Workers = {w1, w2}
  Configs <- OneLink
  Ordered = FALSE
  Retries = TRUE
  None = None
SPECIFICATION Spec
INVARIANTS OneMirror
CHECK_DEADLOCK FALSE
