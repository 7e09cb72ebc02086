\* Four keys in a list of two, five calls of Record; texts of up to four tokens.
CONSTANTS
  ValidIDs = {"d1", "d2"}
  OtherIDs = {""}
  Numbers = {0, 1, 2, 3}
  MaxInt = 2
  MaxTokens = 4
  Titles <- MCTitles
  Bodies <- MCBodies
  Branches <- Branch
  Sources = {"forge", "plane"}
  Events = {"e1", "e2"}
  Targets = {"t1"}
  Capacity = 2
  Elements = {n1, n2, n3}
  MaxRecords = 5
SPECIFICATION MCSpec
INVARIANTS Coherent Ordered EchoRecognised TextKept PullNamesItem
PROPERTIES PromiseSpec
