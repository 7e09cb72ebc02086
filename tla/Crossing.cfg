\* Two handlers, deliveries in any order: creations, comments, deletions, moves.
CONSTANTS
  Repos = {"r1"}
  Projects = {"p1"}
  PlaneStates = {"todo", "done", "review"}
  DefaultState = "todo"
  KeepsBodyMarker = FALSE
  KeepsCommentMarker = TRUE
  UniqueRefs = FALSE
  Budgets <- CrossingBudgets
  Workers = {w1, w2}
  Configs <- PullLink
  Ordered = FALSE
  Retries = TRUE
  None = None
SYMMETRY HandlerSymmetry
SPECIFICATION Spec
INVARIANTS NoBounce CommentsBounceOnce RightThread DuplicatesNeedFailures
PROPERTIES EditsKeepState MirroringSpec
CHECK_DEADLOCK FALSE
