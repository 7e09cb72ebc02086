\* Two callers of one cache entry while users change the states.
CONSTANTS
  c1 = c1
  c2 = c2
  c3 = c3
  e1 = e1
  todo = todo
  done = done
  Callers = {c1, c2}
  Entries = {e1}
  Home <- OneHome
  Names = {todo, done}
  Initial <- OneState
  Unique = TRUE
  TTL = 2
  Timeout = 1
  PageSize = 3
  MaxTime = 4
  MaxObjects = 3
  MaxCalls = 3
  MaxFaults = 1
  MaxChanges = 2
SPECIFICATION FairSpec
PROPERTIES OneListPerWindow Current MissesExpire Answered
CHECK_DEADLOCK FALSE
