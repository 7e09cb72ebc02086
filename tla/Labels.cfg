\* One process, names in use are refused, users rename and delete labels.
CONSTANTS
  c1 = c1
  c2 = c2
  c3 = c3
  e1 = e1
  e2 = e2
  bug = bug
  docs = docs
  blank = blank
  Blank = blank
  Names = {bug, docs}
  Callers = {c1, c2}
  Entries = {e1}
  Home <- OneHome
  Initial <- OneLabel
  Unique = TRUE
  TTL = 2
  Timeout = 1
  PageSize = 9
  MaxTime = 5
  MaxObjects = 9
  MaxLabels = 2
  MaxCalls = 2
  MaxFaults = 0
  MaxChanges = 1
  Ops = {"ids", "names"}
SPECIFICATION Spec
INVARIANTS TypeOK
PROPERTIES CurrentLabels RefusalsExpire CurrentNames
CHECK_DEADLOCK FALSE
