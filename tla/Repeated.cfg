\* A delivery already handled and recorded is sent again.
CONSTANTS
  Repos = {"r1"}
  Projects = {"p1"}
  PlaneStates = {"todo", "done"}
  DefaultState = "todo"
  KeepsBodyMarker = FALSE
  KeepsCommentMarker = TRUE
  UniqueRefs = FALSE
  Budgets <- OneFault
  Workers = {w1}
  Configs <- OneLink
  Ordered = TRUE
  Retries = TRUE
  None = None
SPECIFICATION Spec
PROPERTIES SecondDeliveryStopped
CHECK_DEADLOCK FALSE
