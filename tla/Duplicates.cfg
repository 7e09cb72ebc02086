\* The forge allows a name twice: three callers in two processes, a lost response.
CONSTANTS
  c1 = c1
  c2 = c2
  c3 = c3
  e1 = e1
  e2 = e2
  bug = bug
  docs = docs
  blank = blank
  Blank = blank
  Names = {bug}
  Callers = {c1, c2, c3}
  Entries = {e1, e2}
  Home <- ThreeInTwo
  Initial <- NoLabel
  Unique = FALSE
  TTL = 2
  Timeout = 1
  PageSize = 9
  MaxTime = 3
  MaxObjects = 4
  MaxLabels = 1
  MaxCalls = 3
  MaxFaults = 1
  MaxChanges = 0
  Ops = {"ids"}
SPECIFICATION FairSpec
INVARIANTS DuplicatesNeedCause
PROPERTIES Answered
CHECK_DEADLOCK FALSE
