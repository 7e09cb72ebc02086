\* Two callers of one process while addresses change and a call fails.
CONSTANTS
  c1 = c1
  c2 = c2
  x = x
  y = y
  Callers = {c1, c2}
  Logins = {"ann", "hal"}
  Members = {"mary", "maud"}
  Emails = {x, y}
  Override <- OneOverride
  Initial <- FewAddresses
  TTL = 2
  Timeout = 1
  MaxTime = 4
  MaxCalls = 2
  MaxFaults = 1
  MaxChanges = 1
SYMMETRY IdentitySymmetry
SPECIFICATION Spec
INVARIANTS MutexHeld
PROPERTIES MemberCurrent LoginCurrent MissesExpire OneCallPerWindow
CHECK_DEADLOCK FALSE
