\* One process, at most two connections at a time.  A tick is 15 seconds.
CONSTANTS
  any = any
  one = one
  two = two
  Requests = {any, one, two}
  Deliveries <- MCDeliveries
  Starts <- MCStarts
  ReadTimeout = 2
  CallTimeout = 2
  DrainTimeout = 1
  MaxCalls = 3
SPECIFICATION FairSpec
INVARIANTS
  CleanExit
  CutOffsAreOld
  DecidedForGood
  NeverPanics
  ServedSound
PROPERTIES
  Stops
